---- MODULE Spec2Model ----
(***************************************************************************)
(* A model of trecento/capua.py: the rules of Nicolaus de Capua for musica *)
(* ficta.  Notes are records carrying the pitch and the keys of            *)
(* Note.editorial that capua.py reads and writes; streams are sequences of *)
(* notes and rests of equal duration, so the i-th elements of two streams  *)
(* sound together.                                                         *)
(***************************************************************************)
EXTENDS Integers, Sequences, FiniteSets, TLC

VARIABLES stream1, stream2, orig1, pre1, pre2, lastCall, nCalls, calls, ret, count,
          raised, arg, intervalType, corpus, run, totalDict, checkDict

vars == <<stream1, stream2, orig1, pre1, pre2, lastCall, nCalls, calls, ret, count,
          raised, arg, intervalType, corpus, run, totalDict, checkDict>>

\* the variables of a run over the corpus
corpusVars == <<corpus, run, totalDict, checkDict>>

(***************************************************************************)
(* Values                                                                  *)
(***************************************************************************)
\* a key of Note.editorial that was never set
Absent == "absent"
\* Python's None
None == "None"

RULE_ONE == 1
RULE_TWO == 2
RULE_THREE == 4
RULE_FOUR_A == 8
RULE_FOUR_B == 16

PerfectCons == {"P1", "P5", "P8"}
ImperfCons == {"m3", "M3", "m6", "M6"}
Others == {"m2", "M2", "A2", "d3", "A3", "d4", "P4", "A4", "d5", "A5", "d6",
           "A6", "d7", "m7", "M7", "A7"}

betterColor == "green"
worseColor == "red"

Steps == <<"C", "D", "E", "F", "G", "A", "B">>

\* an interval object without a diatonic part (interval1.diatonic is None)
NoDiatonicInterval == [isNone |-> FALSE, hasDiatonic |-> FALSE, name |-> "", directedName |-> "",
                       simpleName |-> "", semiSimpleName |-> "", perfectable |-> FALSE,
                       simpleUndirected |-> 0, specifier |-> ""]

\* the harmonic interval of a note that has none (editorial.harmonicInterval is None)
NoInterval == [isNone |-> TRUE, hasDiatonic |-> FALSE, name |-> "", directedName |-> "",
               simpleName |-> "", semiSimpleName |-> "", perfectable |-> FALSE,
               simpleUndirected |-> 0, specifier |-> ""]

\* music21.note.Note(step, octave) with an optional written accidental and an
\* empty editorial; ficta and harmonicInterval read as None until set
Note(step, octave, acc) ==
    [isRest |-> FALSE, step |-> step, octave |-> octave, accidental |-> acc,
     ficta |-> None, pmfcFicta |-> Absent, capuaFicta |-> Absent,
     savedAccidental |-> Absent, savedFicta |-> Absent, capuaRuleNumber |-> 0,
     color |-> None, harmonicInterval |-> NoInterval,
     noFictaHarmony |-> Absent, editorFictaHarmony |-> Absent,
     capua1FictaHarmony |-> Absent, capua2FictaHarmony |-> Absent,
     fictaColor |-> Absent]

\* music21.note.Rest()
Rest == [Note("-", 0, None) EXCEPT !.isRest = TRUE]

(***************************************************************************)
(* music21.interval as capua.py uses it                                    *)
(***************************************************************************)
StepNum(step) == CHOOSE i \in 0..6 : Steps[i + 1] = step

StepSemis(step) == <<0, 2, 4, 5, 7, 9, 11>>[StepNum(step) + 1]

Alter(acc) == IF acc = "sharp" THEN 1 ELSE IF acc = "flat" THEN 0 - 1 ELSE 0

\* Pitch.diatonicNoteNum and Pitch.ps
DiatonicNoteNum(n) == StepNum(n.step) + 1 + 7 * n.octave
PitchSpace(n) == 12 * (n.octave + 1) + StepSemis(n.step) + Alter(n.accidental)

Abs(x) == IF x < 0 THEN 0 - x ELSE x
Sign(x) == IF x < 0 THEN 0 - 1 ELSE IF x > 0 THEN 1 ELSE 0

\* interval.notesToGeneric: the directed generic size (1 = unison, never 0 or -1)
GenericDirected(n1, n2) ==
    LET d == DiatonicNoteNum(n2) - DiatonicNoteNum(n1)
    IN  IF d = 0 THEN 1 ELSE IF d > 0 THEN d + 1 ELSE d - 1

SimpleUndirected(g) == ((Abs(g) - 1) % 7) + 1
UndirectedOctaves(g) == (Abs(g) - 1) \div 7
SemiSimpleUndirected(g) ==
    IF SimpleUndirected(g) = 1 /\ UndirectedOctaves(g) >= 1 THEN 8 ELSE SimpleUndirected(g)
Perfectable(g) == SimpleUndirected(g) \in {1, 4, 5}

\* interval._getSpecifierFromGenericChromatic
Specifier(g, c) ==
    LET normalSemis == <<0, 2, 4, 5, 7, 9, 11>>[SimpleUndirected(g)] + 12 * UndirectedOctaves(g)
        gDir == IF g = 1 THEN 0 ELSE Sign(g)
        theseSemis == IF gDir # Sign(c) /\ gDir # 0 /\ Sign(c) # 0 THEN 0 - Abs(c)
                      ELSE IF Abs(g) = 1 THEN c
                      ELSE Abs(c)
        off == theseSemis - normalSemis
        perfspecs == <<"dddd", "ddd", "dd", "d", "P", "A", "AA", "AAA", "AAAA">>
        specs == <<"dddd", "ddd", "dd", "d", "m", "M", "A", "AA", "AAA", "AAAA">>
    IN  IF Perfectable(g)
        THEN IF off + 5 \in 1..9 THEN perfspecs[off + 5] ELSE "?"
        ELSE IF off + 6 \in 1..10 THEN specs[off + 6] ELSE "?"

\* interval.notesToInterval(n1, n2)
notesToInterval(n1, n2) ==
    LET g == GenericDirected(n1, n2)
        q == Specifier(g, PitchSpace(n2) - PitchSpace(n1))
    IN  [isNone |-> FALSE, hasDiatonic |-> TRUE,
         name |-> q \o ToString(Abs(g)),
         directedName |-> q \o ToString(g),
         simpleName |-> q \o ToString(SimpleUndirected(g)),
         semiSimpleName |-> q \o ToString(SemiSimpleUndirected(g)),
         perfectable |-> Perfectable(g),
         simpleUndirected |-> SimpleUndirected(g),
         specifier |-> q]

(***************************************************************************)
(* The interval classifier                                                 *)
(***************************************************************************)
CapuaException == "CapuaException"

\* getIntervalType with the final raise replaced by the last class
getIntervalTypeNoRaise(interval1) ==
    IF interval1.isNone THEN None
    ELSE IF ~interval1.hasDiatonic THEN None
    ELSE IF interval1.name \in PerfectCons THEN "perfect cons"
    ELSE IF interval1.name \in ImperfCons THEN "imperfect cons"
    ELSE "dissonance"

getIntervalType(interval1) ==
    IF interval1.isNone THEN None
    ELSE IF ~interval1.hasDiatonic THEN None
    ELSE IF interval1.name \in PerfectCons THEN "perfect cons"
    ELSE IF interval1.name \in ImperfCons THEN "imperfect cons"
    ELSE IF interval1.name \in Others THEN "dissonance"
    ELSE CapuaException

(***************************************************************************)
(* The ficta store: one note                                               *)
(***************************************************************************)
clearAccidental(note1) ==
    IF note1.accidental # None
    THEN [note1 EXCEPT !.savedAccidental = note1.accidental, !.accidental = None]
    ELSE note1

\* restoreAccidental that clears the accidental when nothing was saved
restoreAccidentalOrClear(note1) ==
    IF note1.savedAccidental # Absent
    THEN [note1 EXCEPT !.accidental = note1.savedAccidental, !.savedAccidental = None]
    ELSE [note1 EXCEPT !.accidental = None]

restoreAccidental(note1) ==
    IF note1.savedAccidental # Absent
    THEN [note1 EXCEPT !.accidental = note1.savedAccidental, !.savedAccidental = None]
    ELSE note1

fictaToAccidental(note1) ==
    IF note1.ficta # None
    THEN [(IF note1.accidental # None THEN clearAccidental(note1) ELSE note1)
            EXCEPT !.accidental = note1.ficta]
    ELSE note1

pmfcFictaToAccidental(note1) ==
    IF note1.pmfcFicta # Absent /\ note1.pmfcFicta # None
    THEN [clearAccidental(note1) EXCEPT !.accidental = note1.pmfcFicta]
    ELSE note1

\* capuaFictaToAccidental without the call of clearAccidental
capuaFictaToAccidentalNoBackup(note1) ==
    IF note1.capuaFicta # Absent /\ note1.capuaFicta # None
    THEN [note1 EXCEPT !.accidental = note1.capuaFicta]
    ELSE note1

capuaFictaToAccidental(note1) ==
    IF note1.capuaFicta # Absent /\ note1.capuaFicta # None
    THEN [clearAccidental(note1) EXCEPT !.accidental = note1.capuaFicta]
    ELSE note1

(***************************************************************************)
(* Streams                                                                 *)
(***************************************************************************)
\* the positions of Stream.notes: the elements that are not rests
NotePositions(s) == {i \in 1..Len(s) : ~s[i].isRest}

\* for n in stream.notes: n = f(n)
ForEachNote(f(_), s) == [i \in 1..Len(s) |-> IF s[i].isRest THEN s[i] ELSE f(s[i])]

\* for n in stream: n = f(n)
ForEach(f(_), s) == [i \in 1..Len(s) |-> f(s[i])]

clearFictaNote(n2) == [n2 EXCEPT !.savedFicta = n2.ficta, !.ficta = None]

clearFicta(srcStream1) == ForEachNote(clearFictaNote, srcStream1)

restoreFictaNote(n2) ==
    IF n2.savedFicta # Absent /\ n2.savedFicta # None
    THEN [n2 EXCEPT !.ficta = n2.savedFicta, !.savedFicta = None]
    ELSE n2

restoreFicta(srcStream1) == ForEach(restoreFictaNote, srcStream1)

(***************************************************************************)
(* The rule pattern engine.  Each XxxWindow is the body of the rule's loop *)
(* for the window that starts at position i (1-based); hit says whether    *)
(* numChanged was incremented.                                             *)
(***************************************************************************)
\* if 'capuaRuleNumber' in editorial: += rule, else: = rule
AddRule(n, rule) ==
    [n EXCEPT !.capuaRuleNumber = IF n.capuaRuleNumber # 0 THEN n.capuaRuleNumber + rule
                                  ELSE rule]

\* ProposeOnPivot that writes the proposed sharp into the real pitch as well
ProposeOnPivotWritesSharp(n, pivotColor) ==
    IF n.accidental # None /\ n.accidental = "flat"
    THEN [n EXCEPT !.savedAccidental = n.accidental, !.accidental = None,
                   !.ficta = "natural", !.capuaFicta = "natural", !.color = pivotColor]
    ELSE [n EXCEPT !.accidental = "sharp", !.ficta = "sharp", !.capuaFicta = "sharp",
                   !.color = pivotColor]

\* the flat / not-flat branches shared by rules one, two and four B
ProposeOnPivot(n, pivotColor) ==
    IF n.accidental # None /\ n.accidental = "flat"
    THEN [n EXCEPT !.savedAccidental = n.accidental, !.accidental = None,
                   !.ficta = "natural", !.capuaFicta = "natural", !.color = pivotColor]
    ELSE [n EXCEPT !.ficta = "sharp", !.capuaFicta = "sharp", !.color = pivotColor]

Miss(ssn) == [ssn |-> ssn, hit |-> FALSE]

\* capuaRuleOne without the accidental guard on the outer notes
capuaRuleOneWindowNoOuterGuard(ssn, i) ==
    LET n1 == ssn[i]
        n2 == ssn[i + 1]
        n3 == ssn[i + 2]
        i1 == notesToInterval(n1, n2)
        i2 == notesToInterval(n2, n3)
    IN  IF n1.isRest \/ n2.isRest \/ n3.isRest THEN Miss(ssn)
        ELSE IF n2.step = "A" \/ n2.step = "D" THEN Miss(ssn)
        ELSE IF i1.directedName = "M-2" /\ i2.directedName = "M2"
        THEN [ssn |-> [ssn EXCEPT
                         ![i] = [n1 EXCEPT !.color = "blue"],
                         ![i + 1] = ProposeOnPivot(AddRule(n2, RULE_ONE),
                                        IF n2.accidental = "flat" THEN "forestGreen"
                                        ELSE "ForestGreen"),
                         ![i + 2] = [n3 EXCEPT !.color = "blue"]],
              hit |-> TRUE]
        ELSE Miss(ssn)

capuaRuleOneWindow(ssn, i) ==
    LET n1 == ssn[i]
        n2 == ssn[i + 1]
        n3 == ssn[i + 2]
        i1 == notesToInterval(n1, n2)
        i2 == notesToInterval(n2, n3)
    IN  IF n1.isRest \/ n2.isRest \/ n3.isRest THEN Miss(ssn)
        ELSE IF n1.accidental # None \/ n3.accidental # None THEN Miss(ssn)
        ELSE IF n2.step = "A" \/ n2.step = "D" THEN Miss(ssn)
        ELSE IF i1.directedName = "M-2" /\ i2.directedName = "M2"
        THEN [ssn |-> [ssn EXCEPT
                         ![i] = [n1 EXCEPT !.color = "blue"],
                         ![i + 1] = ProposeOnPivot(AddRule(n2, RULE_ONE),
                                        IF n2.accidental = "flat" THEN "forestGreen"
                                        ELSE "ForestGreen"),
                         ![i + 2] = [n3 EXCEPT !.color = "blue"]],
              hit |-> TRUE]
        ELSE Miss(ssn)

capuaRuleTwoWindow(ssn, i) ==
    LET n1 == ssn[i]
        n2 == ssn[i + 1]
        n3 == ssn[i + 2]
        n4 == ssn[i + 3]
        i1 == notesToInterval(n1, n2)
        i2 == notesToInterval(n2, n3)
        i3 == notesToInterval(n3, n4)
    IN  IF n1.isRest \/ n2.isRest \/ n3.isRest \/ n4.isRest THEN Miss(ssn)
        ELSE IF n1.accidental # None \/ n2.accidental # None \/ n4.accidental # None
        THEN Miss(ssn)
        ELSE IF n3.step = "A" \/ n3.step = "D" THEN Miss(ssn)
        ELSE IF i1.directedName = "M2" /\ i2.directedName = "m2" /\ i3.directedName = "M2"
        THEN [ssn |-> [ssn EXCEPT
                         ![i] = [n1 EXCEPT !.color = "purple"],
                         ![i + 1] = [n2 EXCEPT !.color = "purple"],
                         ![i + 2] = ProposeOnPivot(AddRule(n3, RULE_TWO), "ForestGreen"),
                         ![i + 3] = [n4 EXCEPT !.color = "purple"]],
              hit |-> TRUE]
        ELSE Miss(ssn)

\* capuaRuleThree with the accidental guard of rule one: n1 and n3 only
capuaRuleThreeWindowOuterGuard(ssn, i) ==
    LET n1 == ssn[i]
        n2 == ssn[i + 1]
        n3 == ssn[i + 2]
        i1 == notesToInterval(n1, n2)
        i2 == notesToInterval(n2, n3)
    IN  IF n1.isRest \/ n2.isRest \/ n3.isRest THEN Miss(ssn)
        ELSE IF n1.accidental # None \/ n3.accidental # None THEN Miss(ssn)
        ELSE IF n2.step = "A" \/ n2.step = "D" THEN Miss(ssn)
        ELSE IF i1.directedName = "M-3" /\ i2.directedName = "M2"
        THEN [ssn |-> [ssn EXCEPT
                         ![i] = [n1 EXCEPT !.color = "DeepPink"],
                         ![i + 1] = [AddRule(n2, RULE_THREE) EXCEPT
                                       !.ficta = "sharp", !.capuaFicta = "sharp",
                                       !.color = "ForestGreen"],
                         ![i + 2] = [n3 EXCEPT !.color = "DeepPink"]],
              hit |-> TRUE]
        ELSE Miss(ssn)

capuaRuleThreeWindow(ssn, i) ==
    LET n1 == ssn[i]
        n2 == ssn[i + 1]
        n3 == ssn[i + 2]
        i1 == notesToInterval(n1, n2)
        i2 == notesToInterval(n2, n3)
    IN  IF n1.isRest \/ n2.isRest \/ n3.isRest THEN Miss(ssn)
        ELSE IF n1.accidental # None \/ n2.accidental # None \/ n3.accidental # None
        THEN Miss(ssn)
        ELSE IF n2.step = "A" \/ n2.step = "D" THEN Miss(ssn)
        ELSE IF i1.directedName = "M-3" /\ i2.directedName = "M2"
        THEN [ssn |-> [ssn EXCEPT
                         ![i] = [n1 EXCEPT !.color = "DeepPink"],
                         ![i + 1] = [AddRule(n2, RULE_THREE) EXCEPT
                                       !.ficta = "sharp", !.capuaFicta = "sharp",
                                       !.color = "ForestGreen"],
                         ![i + 2] = [n3 EXCEPT !.color = "DeepPink"]],
              hit |-> TRUE]
        ELSE Miss(ssn)

\* capuaRuleFourA without the exclusion of the steps A and D
capuaRuleFourAWindowAnyStep(ssn, i) ==
    LET n1 == ssn[i]
        n2 == ssn[i + 1]
        n3 == ssn[i + 2]
        i1 == notesToInterval(n1, n2)
        i2 == notesToInterval(n2, n3)
    IN  IF n1.isRest \/ n2.isRest \/ n3.isRest THEN Miss(ssn)
        ELSE IF n1.accidental # None \/ n2.accidental # None \/ n3.accidental # None
        THEN Miss(ssn)
        ELSE IF i1.directedName = "m-3" /\ i2.directedName = "M-2"
        THEN [ssn |-> [ssn EXCEPT
                         ![i] = [n1 EXCEPT !.color = "orange"],
                         ![i + 1] = [AddRule(n2, RULE_FOUR_A) EXCEPT
                                       !.ficta = "flat", !.capuaFicta = "flat",
                                       !.color = "ForestGreen"],
                         ![i + 2] = [n3 EXCEPT !.color = "orange"]],
              hit |-> TRUE]
        ELSE Miss(ssn)

\* capuaRuleFourB reading a rising minor second before its pivot, as rule two does
capuaRuleFourBWindowAfterStep(ssn, i) ==
    LET n1 == ssn[i]
        n2 == ssn[i + 1]
        n3 == ssn[i + 2]
        i1 == notesToInterval(n1, n2)
        i2 == notesToInterval(n2, n3)
    IN  IF n1.isRest \/ n2.isRest \/ n3.isRest THEN Miss(ssn)
        ELSE IF n1.accidental # None \/ n3.accidental # None THEN Miss(ssn)
        ELSE IF n2.step = "A" \/ n2.step = "D" THEN Miss(ssn)
        ELSE IF i1.directedName = "m2" /\ i2.directedName = "M2"
        THEN [ssn |-> [ssn EXCEPT
                         ![i] = [n1 EXCEPT !.color = "orange"],
                         ![i + 1] = ProposeOnPivot(AddRule(n2, RULE_FOUR_B), "green"),
                         ![i + 2] = [n3 EXCEPT !.color = "orange"]],
              hit |-> TRUE]
        ELSE Miss(ssn)

capuaRuleFourAWindow(ssn, i) ==
    LET n1 == ssn[i]
        n2 == ssn[i + 1]
        n3 == ssn[i + 2]
        i1 == notesToInterval(n1, n2)
        i2 == notesToInterval(n2, n3)
    IN  IF n1.isRest \/ n2.isRest \/ n3.isRest THEN Miss(ssn)
        ELSE IF n1.accidental # None \/ n2.accidental # None \/ n3.accidental # None
        THEN Miss(ssn)
        ELSE IF n2.step = "A" \/ n2.step = "D" THEN Miss(ssn)
        ELSE IF i1.directedName = "m-3" /\ i2.directedName = "M-2"
        THEN [ssn |-> [ssn EXCEPT
                         ![i] = [n1 EXCEPT !.color = "orange"],
                         ![i + 1] = [AddRule(n2, RULE_FOUR_A) EXCEPT
                                       !.ficta = "flat", !.capuaFicta = "flat",
                                       !.color = "ForestGreen"],
                         ![i + 2] = [n3 EXCEPT !.color = "orange"]],
              hit |-> TRUE]
        ELSE Miss(ssn)

capuaRuleFourBWindow(ssn, i) ==
    LET n1 == ssn[i]
        n2 == ssn[i + 1]
        n3 == ssn[i + 2]
        i1 == notesToInterval(n1, n2)
        i2 == notesToInterval(n2, n3)
    IN  IF n1.isRest \/ n2.isRest \/ n3.isRest THEN Miss(ssn)
        ELSE IF n1.accidental # None \/ n3.accidental # None THEN Miss(ssn)
        ELSE IF n2.step = "A" \/ n2.step = "D" THEN Miss(ssn)
        ELSE IF i1.directedName = "m3" /\ i2.directedName = "M2"
        THEN [ssn |-> [ssn EXCEPT
                         ![i] = [n1 EXCEPT !.color = "orange"],
                         ![i + 1] = ProposeOnPivot(AddRule(n2, RULE_FOUR_B), "green"),
                         ![i + 2] = [n3 EXCEPT !.color = "orange"]],
              hit |-> TRUE]
        ELSE Miss(ssn)

\* for i in range(len(ssn) - width + 1): the loop from window i on, in place
RECURSIVE ScanWindows(_, _, _, _, _)
ScanWindows(Window(_, _), width, ssn, i, numChanged) ==
    IF i + width - 1 > Len(ssn) THEN [ssn |-> ssn, numChanged |-> numChanged]
    ELSE LET r == Window(ssn, i)
         IN  ScanWindows(Window, width, r.ssn, i + 1,
                         IF r.hit THEN numChanged + 1 ELSE numChanged)

capuaRuleOne(srcStream) == ScanWindows(capuaRuleOneWindow, 3, srcStream, 1, 0)
capuaRuleTwo(srcStream) == ScanWindows(capuaRuleTwoWindow, 4, srcStream, 1, 0)
capuaRuleThree(srcStream) == ScanWindows(capuaRuleThreeWindow, 3, srcStream, 1, 0)
capuaRuleFourA(srcStream) == ScanWindows(capuaRuleFourAWindow, 3, srcStream, 1, 0)
capuaRuleFourB(srcStream) == ScanWindows(capuaRuleFourBWindow, 3, srcStream, 1, 0)

\* the first loop of applyCapuaToStream: hasattr(n.editorial, 'ficta') holds for
\* every note, because editorial.ficta reads as None when it was never set
SavePmfcFicta(n) == clearAccidental([n EXCEPT !.pmfcFicta = n.ficta])

applyCapuaToStream(thisStream) ==
    LET s0 == ForEachNote(SavePmfcFicta, thisStream)
        s1 == clearFicta(s0)
        s2 == capuaRuleOne(s1).ssn
        s3 == capuaRuleTwo(s2).ssn
        s4 == capuaRuleThree(s3).ssn
    IN  capuaRuleFourB(s4).ssn

\* the position in s of the k-th note of s
NotePosition(s, k) ==
    CHOOSE j \in NotePositions(s) : Cardinality({m \in NotePositions(s) : m <= j}) = k

\* thisPart.flat.notes.stream(): the notes of the part, without its rests
NotesOnly(s) == [k \in 1..Cardinality(NotePositions(s)) |-> s[NotePosition(s, k)]]

\* the part after its notes were changed in place through the notes-only stream
WriteBack(s, notes) ==
    [i \in 1..Len(s) |-> IF s[i].isRest THEN s[i]
                         ELSE notes[Cardinality({m \in NotePositions(s) : m <= i})]]

\* applyCapuaToScore for one part of the score
applyCapuaToPart(thisPart) == WriteBack(thisPart, applyCapuaToStream(NotesOnly(thisPart)))

(***************************************************************************)
(* Two voices: harmonic intervals and the evaluation passes.  The elements *)
(* of the two streams sound together position by position.  An evaluation  *)
(* ends with a record of the two streams, the counts it returned and the   *)
(* exception it raised, if any.                                            *)
(***************************************************************************)
\* attachIntervalsBetweenStreams that attaches an interval object without a
\* diatonic part to a note that sounds with a rest or with nothing
attachIntervalsOrEmptyInterval(s, cmpStream) ==
    [i \in 1..Len(s) |->
        IF s[i].isRest THEN s[i]
        ELSE [s[i] EXCEPT !.harmonicInterval =
                 IF i <= Len(cmpStream) /\ ~cmpStream[i].isRest
                 THEN notesToInterval(s[i], cmpStream[i])
                 ELSE NoDiatonicInterval]]

\* Stream.attachIntervalsBetweenStreams: every note of s gets the interval to
\* the note that sounds with it in cmpStream, or None under a rest or nothing
attachIntervalsBetweenStreams(s, cmpStream) ==
    [i \in 1..Len(s) |->
        IF s[i].isRest THEN s[i]
        ELSE [s[i] EXCEPT !.harmonicInterval =
                 IF i <= Len(cmpStream) /\ ~cmpStream[i].isRest
                 THEN notesToInterval(s[i], cmpStream[i])
                 ELSE NoInterval]]

Classes == {"perfect cons", "imperfect cons", "dissonance"}

\* the assignment of compareOnesrcStream for one note, by hasFicta and fictaType
SetHarmony(note1, fictaType, iType) ==
    LET hasFicta == note1.ficta # None
    IN  IF hasFicta /\ fictaType = "editor" THEN [note1 EXCEPT !.editorFictaHarmony = iType]
        ELSE IF hasFicta /\ fictaType = "capua1srcStream"
        THEN [note1 EXCEPT !.capua1FictaHarmony = iType]
        ELSE IF hasFicta /\ fictaType = "capua2srcStream"
        THEN [note1 EXCEPT !.capua2FictaHarmony = iType]
        ELSE [note1 EXCEPT !.noFictaHarmony = iType]

Min(S) == CHOOSE x \in S : \A y \in S : x <= y

\* a local variable: body(v) with v computed once
Bind(v, body(_)) == CHOOSE r \in {body(t) : t \in {v}} : TRUE

\* the loop of compareOnesrcStream over the notes of srcStream1, once the
\* intervals are attached to both streams
compareAttached(a1, a2, fictaType) ==
    LET looked == {i \in NotePositions(a1) : ~a1[i].harmonicInterval.isNone}
        iType(i) == getIntervalType(a1[i].harmonicInterval)
        bad == {i \in looked : iType(i) \notin Classes}
        stop == IF bad = {} THEN Len(a1) + 1 ELSE Min(bad)
        \* the notes whose harmony was assigned before the loop ended
        assigned == {i \in looked : i < stop \/ (i = stop /\ iType(i) # CapuaException)}
        counted(class) == Cardinality({i \in looked : i < stop /\ iType(i) = class})
    IN  [s1 |-> [i \in 1..Len(a1) |->
                    IF i \in assigned THEN SetHarmony(a1[i], fictaType, iType(i)) ELSE a1[i]],
         s2 |-> a2,
         count |-> IF bad = {}
                   THEN <<counted("perfect cons"), counted("imperfect cons"),
                          counted("dissonance")>>
                   ELSE <<>>,
         raised |-> IF bad = {} THEN None ELSE CapuaException]

compareOnesrcStream(srcStream1, srcStream2, fictaType) ==
    Bind(attachIntervalsBetweenStreams(srcStream1, srcStream2), LAMBDA a1 :
    Bind(attachIntervalsBetweenStreams(srcStream2, srcStream1), LAMBDA a2 :
         compareAttached(a1, a2, fictaType)))

\* the result of a pass that ended with the streams a and b
Done(a, b, c) == [s1 |-> a, s2 |-> b, count |-> c, raised |-> None]

\* the result of a pass that an exception ended with the streams a and b
Raised(a, b, e) == [s1 |-> a, s2 |-> b, count |-> <<>>, raised |-> e]

evaluateCapuaOnesrcStream(srcStream1, srcStream2) ==
    Bind(applyCapuaToStream(srcStream1), LAMBDA a1 :
    Bind(compareOnesrcStream(ForEach(capuaFictaToAccidental, a1), srcStream2,
                             "capua1srcStream"), LAMBDA c1 :
         IF c1.raised # None THEN c1
         ELSE Done(ForEach(restoreAccidental, c1.s1), c1.s2, c1.count)))

evaluateCapuaTwoStreams(srcStream1, srcStream2) ==
    Bind(applyCapuaToStream(srcStream1), LAMBDA a1 :
    Bind(applyCapuaToStream(srcStream2), LAMBDA a2 :
    Bind(compareOnesrcStream(ForEach(capuaFictaToAccidental, a1),
                             ForEach(capuaFictaToAccidental, a2),
                             "capua2srcStream"), LAMBDA c1 :
         IF c1.raised # None THEN c1
         ELSE Bind(compareOnesrcStream(c1.s2, c1.s1, "capua2srcStream"), LAMBDA c2 :
                   IF c2.raised # None THEN Raised(c2.s2, c2.s1, c2.raised)
                   ELSE Done(ForEach(restoreAccidental, c2.s2),
                             ForEach(restoreAccidental, c2.s1),
                             c1.count \o c2.count)))))

evaluateRules(srcStream1, srcStream2) == evaluateCapuaTwoStreams(srcStream1, srcStream2)

evaluateEditorsFicta(srcStream1, srcStream2) ==
    Bind(compareOnesrcStream(ForEach(pmfcFictaToAccidental, srcStream1),
                             ForEach(pmfcFictaToAccidental, srcStream2),
                             "editor"), LAMBDA c1 :
         IF c1.raised # None THEN c1
         ELSE Done(ForEach(restoreAccidental, c1.s1), ForEach(restoreAccidental, c1.s2),
                   c1.count))

evaluateWithoutFicta(srcStream1, srcStream2) ==
    Bind(compareOnesrcStream(clearFicta(srcStream1), clearFicta(srcStream2), ""),
         LAMBDA c1 :
         IF c1.raised # None THEN c1
         ELSE Done(restoreFicta(c1.s1), restoreFicta(c1.s2), c1.count))

ruleOne(note1, nonCapuaHarmony, capuaHarmony) ==
    IF nonCapuaHarmony = "dissonance" /\ capuaHarmony = "perfect cons"
    THEN [note1 EXCEPT !.fictaColor = betterColor]
    ELSE IF nonCapuaHarmony = "perfect cons" /\ capuaHarmony = "dissonance"
    THEN [note1 EXCEPT !.fictaColor = worseColor]
    ELSE note1

AttributeError == "AttributeError"

\* the exception colorNote ends with, None if it returns
colorNoteRaises(note1, oneOrBoth) ==
    IF note1.capua2FictaHarmony = Absent THEN None
    ELSE IF oneOrBoth = "one" /\ note1.capua1FictaHarmony = Absent THEN AttributeError
    ELSE IF oneOrBoth \notin {"one", "both"} THEN CapuaException
    ELSE IF note1.noFictaHarmony = Absent THEN AttributeError
    ELSE None

colorNote(note1, oneOrBoth) ==
    IF note1.capua2FictaHarmony = Absent \/ colorNoteRaises(note1, oneOrBoth) # None
    THEN note1
    ELSE ruleOne(note1, note1.noFictaHarmony,
                 IF oneOrBoth = "one" THEN note1.capua1FictaHarmony
                 ELSE note1.capua2FictaHarmony)

\* for note1 in s: colorNote(note1, oneOrBoth), up to the first exception
colorNotes(s, oneOrBoth) ==
    LET bad == {i \in 1..Len(s) : colorNoteRaises(s[i], oneOrBoth) # None}
        stop == IF bad = {} THEN Len(s) + 1 ELSE Min(bad)
    IN  [s |-> [i \in 1..Len(s) |-> IF i < stop THEN colorNote(s[i], oneOrBoth) ELSE s[i]],
         raised |-> IF bad = {} THEN None ELSE colorNoteRaises(s[stop], oneOrBoth)]

colorCapuaFicta(srcStream1, srcStream2, oneOrBoth) ==
    Bind(attachIntervalsBetweenStreams(srcStream1, srcStream2), LAMBDA a1 :
    Bind(attachIntervalsBetweenStreams(srcStream2, a1), LAMBDA a2 :
    Bind(evaluateRules(a1, a2), LAMBDA capuaCount :
         IF capuaCount.raised # None THEN capuaCount
         ELSE Bind(evaluateWithoutFicta(capuaCount.s1, capuaCount.s2), LAMBDA noFictaCount :
              IF noFictaCount.raised # None THEN noFictaCount
              ELSE Bind(colorNotes(noFictaCount.s1, oneOrBoth), LAMBDA k1 :
                   IF k1.raised # None THEN Raised(k1.s, noFictaCount.s2, k1.raised)
                   ELSE Bind(colorNotes(noFictaCount.s2, oneOrBoth), LAMBDA k2 :
                        [s1 |-> k1.s, s2 |-> k2.s, count |-> <<>>,
                         raised |-> k2.raised]))))))

(***************************************************************************)
(* The comparison of the rules with the editors                            *)
(***************************************************************************)
\* statsDict / totalDict as they are created
ZeroStats ==
    [totalNotes |-> 0, pmfcAlt |-> 0, capuaAlt |-> 0, pmfcNotCapua |-> 0,
     capuaNotPmfc |-> 0, pmfcAndCapua |-> 0]

compareNoteCapuaToEditor(note1) ==
    IF note1.isRest THEN ZeroStats
    ELSE IF note1.pmfcFicta # Absent /\ note1.capuaFicta # Absent
    THEN [ZeroStats EXCEPT !.totalNotes = 1, !.pmfcAlt = 1, !.capuaAlt = 1,
                           !.pmfcAndCapua = 1]
    ELSE IF note1.pmfcFicta # Absent
    THEN [ZeroStats EXCEPT !.totalNotes = 1, !.pmfcAlt = 1, !.pmfcNotCapua = 1]
    ELSE IF note1.capuaFicta # Absent
    THEN [ZeroStats EXCEPT !.totalNotes = 1, !.capuaAlt = 1, !.capuaNotPmfc = 1]
    ELSE [ZeroStats EXCEPT !.totalNotes = 1]

\* the loop with an assignment in the place of the addition
AddStatsAssign(total, thisDict) ==
    [thisKey \in DOMAIN total |->
        IF thisKey \in DOMAIN thisDict THEN thisDict[thisKey] ELSE total[thisKey]]

\* for thisKey in thisDict: totalDict[thisKey] += thisDict[thisKey]
AddStats(total, thisDict) ==
    [thisKey \in DOMAIN total |->
        IF thisKey \in DOMAIN thisDict THEN total[thisKey] + thisDict[thisKey]
        ELSE total[thisKey]]

\* the loop of compareSrcStreamCapuaToEditor from the element i on
RECURSIVE CompareFrom(_, _, _)
CompareFrom(srcStream1, i, total) ==
    IF i > Len(srcStream1) THEN total
    ELSE CompareFrom(srcStream1, i + 1,
                     AddStats(total, compareNoteCapuaToEditor(srcStream1[i])))

compareSrcStreamCapuaToEditor(srcStream1) == CompareFrom(srcStream1, 1, ZeroStats)

\* the values of a statsDict in the order of its keys in the source
StatsTuple(d) ==
    <<d.totalNotes, d.pmfcAlt, d.capuaAlt, d.pmfcNotCapua, d.capuaNotPmfc, d.pmfcAndCapua>>

(***************************************************************************)
(* The runs over the corpus.  A piece is what BallataSheet.makeWork        *)
(* returns: its incipit (None if unset) and its snippets; a snippet is     *)
(* None or has its classes and its parts, each part an id and its notes    *)
(* and rests.  makeWork reads every piece anew, so a run changes copies.   *)
(***************************************************************************)
\* totalDict of findCorrections as it is created
ZeroTotals ==
    [totalNotes |-> 0, pmfcAlt |-> 0, capuaAlt |-> 0, pmfcNotCapua |-> 0,
     capuaNotPmfc |-> 0, pmfcAndCapua |-> 0, potentialChange |-> 0]

\* checkDict of improvedHarmony as it is created
ZeroCheck == [perfIgnored |-> 0, perfCapua |-> 0, imperfIgnored |-> 0, imperfCapua |-> 0]

\* thisSnippetParts[id].flat.notesAndRests
PartNotes(thisSnippetParts, id) ==
    thisSnippetParts[CHOOSE p \in 1..Len(thisSnippetParts) : thisSnippetParts[p].id = id].notes

\* the snippets both runs pass over: None, an incipit, fewer than two parts
SkippedSnippet(thisSnippet) ==
    \/ thisSnippet.isNone
    \/ "Incipit" \in thisSnippet.classes
    \/ Len(thisSnippet.parts) < 2

\* the interval and the number of following notes findCorrections looks at
simpleNameToCheck(correctionType) == IF correctionType = "Maj3" THEN "m3" ELSE "M6"

\* findCorrections that looks at one following note for both correction types
notesToCheckOne(correctionType) == 1

notesToCheck(correctionType) == IF correctionType = "Maj3" THEN 1 ELSE 2

\* the positions of nextFewNotes for the note at i (from 1) of srcStreamLen notes
NextFewNotes(i, srcStreamLen, correctionType) ==
    IF (i - 1) >= srcStreamLen - notesToCheck(correctionType)
    THEN IF (i - 1) = srcStreamLen - 1 THEN {} ELSE (i + 1)..srcStreamLen
    ELSE (i + 1)..(i + notesToCheck(correctionType))

\* foundP8 for the note at i of srcStreamNotes; the notes of a stream are
\* never None, so the raise in this loop is not reached
FoundP8(srcStreamNotes, i, correctionType) ==
    \E m \in NextFewNotes(i, Len(srcStreamNotes), correctionType) :
        LET hI == srcStreamNotes[m].harmonicInterval
        IN  /\ ~hI.isNone
            /\ \/ correctionType = "Maj3" /\ hI.simpleName = "P1"
               \/ correctionType = "min6" /\ hI.semiSimpleName = "P8"

\* newResults: the comparison of the note with potentialChange set to 1
NewResults(note1) ==
    [thisKey \in DOMAIN ZeroTotals |->
        IF thisKey = "potentialChange" THEN 1 ELSE compareNoteCapuaToEditor(note1)[thisKey]]

\* the loop of findCorrections over the notes of one voice, from the note i on
RECURSIVE CorrectionsFrom(_, _, _, _)
CorrectionsFrom(srcStreamNotes, i, correctionType, total) ==
    IF i > Len(srcStreamNotes) THEN total
    ELSE LET note1 == srcStreamNotes[i]
             hI == note1.harmonicInterval
         IN  Bind(IF hI.isNone \/ hI.simpleName # simpleNameToCheck(correctionType)
                  THEN total
                  ELSE IF ~FoundP8(srcStreamNotes, i, correctionType) THEN total
                  ELSE AddStats(total, NewResults(note1)),
                  LAMBDA total1 :
                      CorrectionsFrom(srcStreamNotes, i + 1, correctionType, total1))

\* the body of the loop were a snippet of one voice compared with the editors
\* where the code passes over it
findCorrectionsSnippetCountsOneVoice(thisSnippet, correctionType, total) ==
    IF thisSnippet.isNone \/ "Incipit" \in thisSnippet.classes THEN total
    ELSE IF Len(thisSnippet.parts) < 2
    THEN AddStats(total, compareSrcStreamCapuaToEditor(
                             applyCapuaToStream(thisSnippet.parts[1].notes)))
    ELSE Bind(attachIntervalsBetweenStreams(PartNotes(thisSnippet.parts, "C"),
                                            PartNotes(thisSnippet.parts, "T")), LAMBDA a1 :
         Bind(attachIntervalsBetweenStreams(PartNotes(thisSnippet.parts, "T"), a1),
              LAMBDA a2 :
         Bind(applyCapuaToStream(a1), LAMBDA srcStream1 :
         Bind(applyCapuaToStream(a2), LAMBDA srcStream2 :
         Bind(CorrectionsFrom(NotesOnly(srcStream1), 1, correctionType, total),
              LAMBDA total1 :
              CorrectionsFrom(NotesOnly(srcStream2), 1, correctionType, total1))))))

\* the body of the loop of findCorrections over the snippets of a piece
findCorrectionsSnippet(thisSnippet, correctionType, total) ==
    IF SkippedSnippet(thisSnippet) THEN total
    ELSE Bind(attachIntervalsBetweenStreams(PartNotes(thisSnippet.parts, "C"),
                                            PartNotes(thisSnippet.parts, "T")), LAMBDA a1 :
         Bind(attachIntervalsBetweenStreams(PartNotes(thisSnippet.parts, "T"), a1),
              LAMBDA a2 :
         Bind(applyCapuaToStream(a1), LAMBDA srcStream1 :
         Bind(applyCapuaToStream(a2), LAMBDA srcStream2 :
         Bind(CorrectionsFrom(NotesOnly(srcStream1), 1, correctionType, total),
              LAMBDA total1 :
              CorrectionsFrom(NotesOnly(srcStream2), 1, correctionType, total1))))))

\* the loop of findCorrections over the snippets of pieceObj, from the k-th on
RECURSIVE SnippetsFrom(_, _, _, _)
SnippetsFrom(pieceObj, k, correctionType, total) ==
    IF k > Len(pieceObj.snippets) THEN total
    ELSE Bind(findCorrectionsSnippet(pieceObj.snippets[k], correctionType, total),
              LAMBDA total1 : SnippetsFrom(pieceObj, k + 1, correctionType, total1))

\* the loop of findCorrections over the pieces, from the piece j on
RECURSIVE PiecesFrom(_, _, _, _, _)
PiecesFrom(ballataObj, j, endPiece, correctionType, total) ==
    IF j >= endPiece THEN total
    ELSE Bind(IF ballataObj[j].incipit = None THEN total
              ELSE SnippetsFrom(ballataObj[j], 1, correctionType, total),
              LAMBDA total1 :
                  PiecesFrom(ballataObj, j + 1, endPiece, correctionType, total1))

\* totalDict as findCorrections returns it, for a correction type it knows
findCorrections(ballataObj, correctionType, startPiece, endPiece) ==
    PiecesFrom(ballataObj, startPiece, endPiece, correctionType, ZeroTotals)

\* the loop of improvedHarmony over the notes of one voice, from the note i on
RECURSIVE HarmonyFrom(_, _, _)
HarmonyFrom(srcStreamNotes, i, check) ==
    IF i > Len(srcStreamNotes) THEN check
    ELSE LET note1 == srcStreamNotes[i]
             hI == note1.harmonicInterval
         IN  Bind(IF hI.isNone \/ ~hI.perfectable \/ hI.simpleUndirected = 4 THEN check
                  ELSE IF hI.specifier = "P"
                  THEN IF note1.capuaFicta # Absent
                       THEN [check EXCEPT !.perfCapua = @ + 1]
                       ELSE [check EXCEPT !.perfIgnored = @ + 1]
                  ELSE IF note1.capuaFicta # Absent
                       THEN [check EXCEPT !.imperfCapua = @ + 1]
                       ELSE [check EXCEPT !.imperfIgnored = @ + 1],
                  LAMBDA check1 : HarmonyFrom(srcStreamNotes, i + 1, check1))

\* the body of the loop of improvedHarmony over the snippets of a piece; only
\* the first voice gets its intervals and the rules
improvedHarmonySnippet(thisSnippet, check) ==
    IF SkippedSnippet(thisSnippet) THEN check
    ELSE Bind(applyCapuaToStream(
                  attachIntervalsBetweenStreams(PartNotes(thisSnippet.parts, "C"),
                                                PartNotes(thisSnippet.parts, "T"))),
              LAMBDA srcStream1 :
         Bind(HarmonyFrom(NotesOnly(srcStream1), 1, check), LAMBDA check1 :
              HarmonyFrom(NotesOnly(PartNotes(thisSnippet.parts, "T")), 1, check1)))

\* no run over the corpus was started
NoRun ==
    [name |-> None, correctionType |-> None, startPiece |-> 0, endPiece |-> 0,
     pc |-> "idle", j |-> 0, k |-> 0, fetched |-> 0, found |-> <<>>]

(***************************************************************************)
(* Bounds                                                                  *)
(***************************************************************************)
\* the longest stream drawn from all sequences over the elements
MaxLen == 3
\* the longest stepwise ascending run
MaxRun == 5
\* the octaves above the fourth from which the upper note of an interval is drawn
MaxSpan == 1
\* the number of calls made on one stream
MaxCalls == 2
\* the number of evaluation passes made on a pair of streams
MaxEvalCalls == 3
\* the longest sequence the rules are run on in their fixed order
MaxOrderLen == 5
\* the number of pieces of the corpus
MaxPieces == 3
\* the number of calls made on the notes of a stream by the functions of the store
MaxStoreCalls == 3

\* the correction types findCorrections is called with; the last is not one it knows
CorrectionTypes == {"Maj3", "min6", "Maj6"}

(***************************************************************************)
(* Calls.  Every action is one call of a function of capua.py on the       *)
(* streams; lastCall names the function called last, nCalls counts the     *)
(* calls, pre1 and pre2 keep the streams as they were when the last call   *)
(* started and ret is the number that call returned (0 for a call that     *)
(* returns nothing).  For a call of an evaluation function, calls lists    *)
(* the evaluation functions called so far, count is the list of counts it  *)
(* returned and raised is the exception it ended with, if any.             *)
(***************************************************************************)
Call(name, s1, s2) ==
    /\ stream1' = s1
    /\ stream2' = s2
    /\ pre1' = stream1
    /\ pre2' = stream2
    /\ lastCall' = name
    /\ nCalls' = nCalls + 1

Returns(name, s1, s2, r) ==
    /\ Call(name, s1, s2)
    /\ ret' = r
    /\ UNCHANGED <<orig1, calls, count, raised, arg, intervalType, corpusVars>>

Evaluated(name, out) ==
    /\ Call(name, out.s1, out.s2)
    /\ calls' = Append(calls, name)
    /\ count' = out.count
    /\ raised' = out.raised
    /\ UNCHANGED <<orig1, ret, arg, intervalType, corpusVars>>

CallRuleOne ==
    /\ nCalls < MaxCalls
    /\ LET r == capuaRuleOne(stream1)
       IN  Returns("capuaRuleOne", r.ssn, stream2, r.numChanged)

CallRuleTwo ==
    /\ nCalls < MaxCalls
    /\ LET r == capuaRuleTwo(stream1)
       IN  Returns("capuaRuleTwo", r.ssn, stream2, r.numChanged)

CallRuleThree ==
    /\ nCalls < MaxCalls
    /\ LET r == capuaRuleThree(stream1)
       IN  Returns("capuaRuleThree", r.ssn, stream2, r.numChanged)

CallRuleFourA ==
    /\ nCalls < MaxCalls
    /\ LET r == capuaRuleFourA(stream1)
       IN  Returns("capuaRuleFourA", r.ssn, stream2, r.numChanged)

CallRuleFourB ==
    /\ nCalls < MaxCalls
    /\ LET r == capuaRuleFourB(stream1)
       IN  Returns("capuaRuleFourB", r.ssn, stream2, r.numChanged)

CallApplyCapuaToStream ==
    /\ nCalls < MaxCalls
    /\ Returns("applyCapuaToStream", applyCapuaToStream(stream1), stream2, 0)

\* applyCapuaToScore / applyCapuaToCadencebookWork on a work whose one part is stream1
CallApplyCapuaToScore ==
    /\ nCalls < MaxCalls
    /\ Returns("applyCapuaToScore", applyCapuaToPart(stream1), stream2, 0)

\* for n in score.flat.notes: capuaFictaToAccidental(n)
CallCapuaFictaToAccidentalAll ==
    /\ nCalls < MaxCalls
    /\ Returns("capuaFictaToAccidental", ForEachNote(capuaFictaToAccidental, stream1),
               stream2, 0)

\* for n in stream.notes: clearAccidental(n)
CallClearAccidentalAll ==
    /\ nCalls < MaxStoreCalls
    /\ Returns("clearAccidental", ForEachNote(clearAccidental, stream1), stream2, 0)

\* for n in stream.notes: restoreAccidental(n)
CallRestoreAccidentalAll ==
    /\ nCalls < MaxStoreCalls
    /\ Returns("restoreAccidental", ForEachNote(restoreAccidental, stream1), stream2, 0)

\* for n in stream.notes: fictaToAccidental(n)
CallFictaToAccidentalAll ==
    /\ nCalls < MaxStoreCalls
    /\ Returns("fictaToAccidental", ForEachNote(fictaToAccidental, stream1), stream2, 0)

\* for n in stream.notes: pmfcFictaToAccidental(n)
CallPmfcFictaToAccidentalAll ==
    /\ nCalls < MaxStoreCalls
    /\ Returns("pmfcFictaToAccidental", ForEachNote(pmfcFictaToAccidental, stream1),
               stream2, 0)

CallClearFicta ==
    /\ nCalls < MaxStoreCalls
    /\ Returns("clearFicta", clearFicta(stream1), stream2, 0)

CallRestoreFicta ==
    /\ nCalls < MaxStoreCalls
    /\ Returns("restoreFicta", restoreFicta(stream1), stream2, 0)

(***************************************************************************)
(* The rule engine on one melodic sequence                                 *)
(***************************************************************************)
\* what a part is made of: rests, plain notes, a written flat and a written sharp
RulesElements ==
    {Rest, Note("C", 4, None), Note("D", 4, None), Note("E", 4, None), Note("E", 4, "flat"),
     Note("F", 4, None), Note("F", 4, "sharp"), Note("G", 4, None)}

\* a stepwise ascending run from the k-th step: every element is a rest, the next
\* degree of the scale, or the next degree with a written flat
RunElement(k, shape, i) ==
    LET deg == k + Cardinality({j \in 1..(i - 1) : shape[j] # "rest"})
    IN  IF shape[i] = "rest" THEN Rest
        ELSE Note(Steps[(deg % 7) + 1], 4 + (deg \div 7),
                  IF shape[i] = "flat" THEN "flat" ELSE None)

Run(k, shape) == [i \in 1..Len(shape) |-> RunElement(k, shape, i)]

RulesStreams ==
    UNION {[1..l -> RulesElements] : l \in 1..MaxLen}
    \cup {Run(k, shape) : k \in 0..1,
                          shape \in UNION {[1..l -> {"rest", "plain", "flat"}] : l \in 1..MaxRun}}

Start(s1, s2) ==
    /\ stream1 = s1
    /\ stream2 = s2
    /\ orig1 = s1
    /\ pre1 = s1
    /\ pre2 = s2
    /\ lastCall = None
    /\ nCalls = 0
    /\ calls = <<>>
    /\ ret = 0
    /\ count = <<>>
    /\ raised = None
    /\ arg = NoInterval
    /\ intervalType = None
    /\ corpus = <<>>
    /\ run = NoRun
    /\ totalDict = ZeroTotals
    /\ checkDict = ZeroCheck

InitRules == \E s \in RulesStreams : Start(s, <<>>)

NextRules ==
    \/ CallRuleOne
    \/ CallRuleTwo
    \/ CallRuleThree
    \/ CallRuleFourA
    \/ CallRuleFourB
    \/ CallApplyCapuaToStream
    \/ CallApplyCapuaToScore
    \/ CallCapuaFictaToAccidentalAll

SpecRules == InitRules /\ [][NextRules]_vars

(***************************************************************************)
(* Properties of the rule engine                                           *)
(***************************************************************************)
\* positions i .. i + width - 1 of s exist and hold notes
IsWindow(s, i, width) ==
    /\ i >= 1
    /\ i + width - 1 <= Len(s)
    /\ \A j \in i..(i + width - 1) : ~s[j].isRest

\* the directed interval from the note at i to the next element
Directed(s, i) == notesToInterval(s[i], s[i + 1]).directedName

Plain(s, j) == s[j].accidental = None

PivotStepAllowed(s, j) == s[j].step \notin {"A", "D"}

HasProposal(n) == n.capuaFicta \notin {Absent, None}

\* bit `rule` of a provenance value
HasRuleBit(number, rule) == (number \div rule) % 2 = 1

\* natural with the flat removed if the pivot was flat, otherwise sharp
FlatOrSharpProposal(before, after) ==
    IF before.accidental = "flat"
    THEN after.capuaFicta = "natural" /\ after.ficta = "natural" /\ after.accidental = None
    ELSE after.capuaFicta = "sharp" /\ after.ficta = "sharp"
         /\ after.accidental = before.accidental

SharpProposal(before, after) ==
    after.capuaFicta = "sharp" /\ after.ficta = "sharp" /\ after.accidental = before.accidental

\* the call wrote no proposal, no provenance and no accidental on the note
Untouched(before, after) ==
    /\ after.capuaFicta = before.capuaFicta
    /\ after.ficta = before.ficta
    /\ after.accidental = before.accidental
    /\ after.capuaRuleNumber = before.capuaRuleNumber

\* the windows of the sequence s the first rule is about, by their first position
RuleOneWindows(s) ==
    {i \in 1..Len(s) : /\ IsWindow(s, i, 3)
                       /\ Directed(s, i) = "M-2" /\ Directed(s, i + 1) = "M2"
                       /\ Plain(s, i) /\ Plain(s, i + 2)
                       /\ PivotStepAllowed(s, i + 1)}

\* C5: capuaRuleOne matches exactly the windows n1,n2,n3 of its input with
\* n1->n2 = M-2, n2->n3 = M2, no accidental on n1 and n3 and n2 not on A or D;
\* each pivot n2 gets natural with its flat removed if it was flat, otherwise
\* sharp; the function returns the number of those windows and no other note
\* receives a proposal.
C5_RuleOne ==
    lastCall = "capuaRuleOne" =>
        /\ ret = Cardinality(RuleOneWindows(pre1))
        /\ \A j \in 1..Len(pre1) :
             IF (j - 1) \in RuleOneWindows(pre1)
             THEN FlatOrSharpProposal(pre1[j], stream1[j])
             ELSE Untouched(pre1[j], stream1[j])

\* C5 witness: a call of capuaRuleOne that matched one window with a flat pivot
\* and took the flat off it
C5_Witness ==
    /\ lastCall = "capuaRuleOne"
    /\ ret = 1
    /\ \E j \in 1..Len(pre1) : pre1[j].accidental = "flat" /\ stream1[j].capuaFicta = "natural"

RuleTwoWindows(s) ==
    {i \in 1..Len(s) : /\ IsWindow(s, i, 4)
                       /\ Directed(s, i) = "M2" /\ Directed(s, i + 1) = "m2"
                       /\ Directed(s, i + 2) = "M2"
                       /\ Plain(s, i) /\ Plain(s, i + 1) /\ Plain(s, i + 3)
                       /\ PivotStepAllowed(s, i + 2)}

\* C6: capuaRuleTwo matches exactly the windows n1..n4 of its input with
\* intervals M2, m2, M2, no accidental on n1, n2, n4 and n3 not on A or D; each
\* pivot n3 gets natural with its flat removed if it was flat, otherwise sharp;
\* the function returns the number of those windows.
C6_RuleTwo ==
    lastCall = "capuaRuleTwo" =>
        /\ ret = Cardinality(RuleTwoWindows(pre1))
        /\ \A j \in 1..Len(pre1) :
             IF (j - 2) \in RuleTwoWindows(pre1)
             THEN FlatOrSharpProposal(pre1[j], stream1[j])
             ELSE Untouched(pre1[j], stream1[j])

\* the windows rule three is said to match: only the outer notes without accidental
RuleThreeWindowsOuter(s) ==
    {i \in 1..Len(s) : /\ IsWindow(s, i, 3)
                       /\ Directed(s, i) = "M-3" /\ Directed(s, i + 1) = "M2"
                       /\ Plain(s, i) /\ Plain(s, i + 2)
                       /\ PivotStepAllowed(s, i + 1)}

\* the windows rule three matches: no accidental on any of the three notes
RuleThreeWindows(s) == {i \in RuleThreeWindowsOuter(s) : Plain(s, i + 1)}

\* C7 as stated: capuaRuleThree matches every window M-3, M2 whose outer notes
\* carry no accidental and whose pivot is not on A or D, and proposes sharp on
\* the pivot whatever its accidental.
C7_RuleThreeAnyPivot ==
    lastCall = "capuaRuleThree" =>
        \A i \in RuleThreeWindowsOuter(pre1) : stream1[i + 1].capuaFicta = "sharp"

\* C7 amended: capuaRuleThree matches exactly the windows M-3, M2 in which none
\* of n1, n2, n3 carries an accidental and n2 is not on A or D; it proposes sharp
\* on each such pivot, returns their number and leaves every other note alone.
C7_RuleThree ==
    lastCall = "capuaRuleThree" =>
        /\ ret = Cardinality(RuleThreeWindows(pre1))
        /\ \A j \in 1..Len(pre1) :
             IF (j - 1) \in RuleThreeWindows(pre1)
             THEN SharpProposal(pre1[j], stream1[j])
             ELSE Untouched(pre1[j], stream1[j])

\* C7 witness: a call of capuaRuleThree that matched one window and wrote a
\* sharp proposal on its pivot
C7_Witness ==
    /\ lastCall = "capuaRuleThree"
    /\ ret = 1
    /\ \E j \in 1..Len(pre1) :
         /\ (j - 1) \in RuleThreeWindows(pre1)
         /\ stream1[j].capuaFicta = "sharp"

RuleFourBWindows(s) ==
    {i \in 1..Len(s) : /\ IsWindow(s, i, 3)
                       /\ Directed(s, i) = "m3" /\ Directed(s, i + 1) = "M2"
                       /\ Plain(s, i) /\ Plain(s, i + 2)
                       /\ PivotStepAllowed(s, i + 1)}

\* the part of C8 about matches and proposals
RuleFourBProposals ==
    lastCall = "capuaRuleFourB" =>
        /\ ret = Cardinality(RuleFourBWindows(pre1))
        /\ \A j \in 1..Len(pre1) :
             IF (j - 1) \in RuleFourBWindows(pre1)
             THEN FlatOrSharpProposal(pre1[j], stream1[j])
             ELSE Untouched(pre1[j], stream1[j])

\* C8: capuaRuleFourB matches exactly the windows n1,n2,n3 of its input with
\* intervals m3, M2, no accidental on n1 and n3 and n2 not on A or D; each pivot
\* gets natural with its flat removed if it was flat, otherwise sharp, and the
\* provenance of the pivot records rule four (the bit RULE_FOUR_B is set).
C8_RuleFourB ==
    /\ RuleFourBProposals
    /\ lastCall = "capuaRuleFourB" =>
         \A i \in RuleFourBWindows(pre1) :
            HasRuleBit(stream1[i + 1].capuaRuleNumber, RULE_FOUR_B)

RuleCalls ==
    {"capuaRuleOne", "capuaRuleTwo", "capuaRuleThree", "capuaRuleFourA", "capuaRuleFourB",
     "applyCapuaToStream", "applyCapuaToScore"}

C10_RestsBlock ==
    lastCall \in RuleCalls =>
        \A j \in 1..Len(stream1) :
            stream1[j].capuaRuleNumber # pre1[j].capuaRuleNumber =>
                /\ j > 1 /\ ~stream1[j - 1].isRest
                /\ j < Len(stream1) /\ ~stream1[j + 1].isRest

\* the sounding pitch of two notes on the same step and octave differs
PitchDiffers(n, m) == Alter(n.accidental) # Alter(m.accidental)

\* C3: after applyCapuaToCadencebookWork and capuaFictaToAccidental on every
\* note, a note's pitch differs from the untouched copy only if the note
\* carries a proposal of the rules.
C3_PitchPreserved ==
    (lastCall = "capuaFictaToAccidental" /\ pre1 = applyCapuaToPart(orig1)) =>
        \A j \in 1..Len(stream1) :
            (~stream1[j].isRest /\ PitchDiffers(stream1[j], orig1[j])) =>
                HasProposal(stream1[j])

\* the constants of the rules applyCapuaToStream runs
AppliedRules == {RULE_ONE, RULE_TWO, RULE_THREE, RULE_FOUR_B}

\* the notes of the window of `rule` around the pivot j other than the pivot
\* carry no accidental in s
OuterPlain(s, j, rule) ==
    IF rule = RULE_TWO THEN Plain(s, j - 2) /\ Plain(s, j - 1) /\ Plain(s, j + 1)
    ELSE Plain(s, j - 1) /\ Plain(s, j + 1)

\* C11: applyCapuaToStream writes no proposal to a pivot when an outer note of
\* the matched window carried a written accidental in the input stream: every
\* rule whose constant the call added to the provenance of a note matched a
\* window whose outer notes were notated without accidentals.
C11_AccidentalGuard ==
    lastCall = "applyCapuaToStream" =>
        \A j \in NotePositions(stream1) : \A rule \in AppliedRules :
            HasRuleBit(stream1[j].capuaRuleNumber - pre1[j].capuaRuleNumber, rule)
                => OuterPlain(pre1, j, rule)

\* the constant of the rule function `name`
RuleConstant(name) ==
    CASE name = "capuaRuleOne" -> RULE_ONE
      [] name = "capuaRuleTwo" -> RULE_TWO
      [] name = "capuaRuleThree" -> RULE_THREE
      [] name = "capuaRuleFourA" -> RULE_FOUR_A
      [] name = "capuaRuleFourB" -> RULE_FOUR_B

\* the bitwise OR of a provenance value and the constant of one rule
BitOr(number, rule) == IF HasRuleBit(number, rule) THEN number ELSE number + rule

\* C13: the provenance is a bitmask: every call of a rule function leaves the
\* capuaRuleNumber of a note as it was or ORs the constant of the rule into
\* it, also when the rule matched the note before, so that a set bit tells
\* which rule matched.
C13_ProvenanceBitmask ==
    [][lastCall' \in {"capuaRuleOne", "capuaRuleTwo", "capuaRuleThree", "capuaRuleFourA",
                      "capuaRuleFourB"}
       => \A j \in NotePositions(stream1) :
            stream1'[j].capuaRuleNumber \in
                {stream1[j].capuaRuleNumber,
                 BitOr(stream1[j].capuaRuleNumber, RuleConstant(lastCall'))}]_vars

(***************************************************************************)
(* The ficta store                                                         *)
(***************************************************************************)
\* a note that carries the editor's ficta
WithFicta(n, f) == [n EXCEPT !.ficta = f]

StoreElements ==
    {Note("C", 4, None), Note("D", 4, None), Note("E", 4, None), Note("E", 4, "flat"),
     WithFicta(Note("F", 4, None), "sharp"), WithFicta(Note("C", 4, "sharp"), "sharp")}

\* one window of notes as it is read from a score
StoreStreams == [1..3 -> StoreElements]

\* the streams the store functions are called on: as read, and after the rules
\* were applied to them
StoreInputs == StoreStreams \cup {applyCapuaToStream(s) : s \in StoreStreams}

InitStore == \E s \in StoreInputs : Start(s, <<>>)

NextStore ==
    \/ CallClearAccidentalAll
    \/ CallRestoreAccidentalAll
    \/ CallFictaToAccidentalAll
    \/ CallPmfcFictaToAccidentalAll
    \/ CallCapuaFictaToAccidentalAll
    \/ CallClearFicta
    \/ CallRestoreFicta

SpecStore == InitStore /\ [][NextStore]_vars

\* the slot a promotion reads
PromotedSlot(call, n) ==
    IF call = "capuaFictaToAccidental" THEN n.capuaFicta ELSE n.pmfcFicta

\* C1: for a note with accidental A (any value, also none, whatever is left in
\* savedAccidental) and a ficta value V that is not null in the promoted slot,
\* capuaFictaToAccidental or pmfcFictaToAccidental followed by
\* restoreAccidental leaves the accidental of the note exactly A.
C1_PromoteRestoreRoundTrip ==
    [][(/\ lastCall \in {"capuaFictaToAccidental", "pmfcFictaToAccidental"}
        /\ lastCall' = "restoreAccidental")
       => \A j \in NotePositions(pre1) :
            PromotedSlot(lastCall, pre1[j]) \notin {Absent, None}
                => stream1'[j].accidental = pre1[j].accidental]_vars

(***************************************************************************)
(* The interval classifier on its own                                      *)
(***************************************************************************)
Accidentals == {None, "sharp", "flat"}

\* the intervals from a C of the fourth octave to the notes above it, the
\* missing interval and an interval without a diatonic part
ClassifyIntervals ==
    {notesToInterval(Note("C", 4, a1), Note(Steps[k], o, a2)) :
        a1 \in Accidentals, k \in 1..7, o \in 4..(4 + MaxSpan), a2 \in Accidentals}
    \cup {NoInterval, NoDiatonicInterval}

InitClassify ==
    /\ arg \in ClassifyIntervals
    /\ intervalType = None
    /\ stream1 = <<>>
    /\ stream2 = <<>>
    /\ orig1 = <<>>
    /\ pre1 = <<>>
    /\ pre2 = <<>>
    /\ lastCall = None
    /\ nCalls = 0
    /\ calls = <<>>
    /\ ret = 0
    /\ count = <<>>
    /\ raised = None
    /\ corpus = <<>>
    /\ run = NoRun
    /\ totalDict = ZeroTotals
    /\ checkDict = ZeroCheck

\* getIntervalType(arg); a raised CapuaException is the outcome CapuaException
CallGetIntervalType ==
    /\ nCalls < MaxCalls
    /\ intervalType' = getIntervalType(arg)
    /\ lastCall' = "getIntervalType"
    /\ nCalls' = nCalls + 1
    /\ UNCHANGED <<stream1, stream2, orig1, pre1, pre2, calls, ret, count, raised, arg,
                   corpusVars>>

NextClassify == CallGetIntervalType

SpecClassify == InitClassify /\ [][NextClassify]_vars

\* C4: getIntervalType returns 'perfect cons' for the names P1, P5, P8,
\* 'imperfect cons' for m3, M3, m6, M6, 'dissonance' for the sixteen names of
\* Others, None for a missing interval or one without a diatonic part, and
\* raises CapuaException for every other name; the three lists are pairwise
\* disjoint.
C4_ClassifierTotal ==
    /\ PerfectCons \cap ImperfCons = {}
    /\ PerfectCons \cap Others = {}
    /\ ImperfCons \cap Others = {}
    /\ lastCall = "getIntervalType" =>
         IF arg.isNone \/ ~arg.hasDiatonic THEN intervalType = None
         ELSE /\ arg.name \in {"P1", "P5", "P8"} <=> intervalType = "perfect cons"
              /\ arg.name \in {"m3", "M3", "m6", "M6"} <=> intervalType = "imperfect cons"
              /\ arg.name \in {"m2", "M2", "A2", "d3", "A3", "d4", "P4", "A4", "d5", "A5",
                                "d6", "A6", "d7", "m7", "M7", "A7"}
                    <=> intervalType = "dissonance"
              /\ arg.name \notin (PerfectCons \cup ImperfCons \cup Others)
                    <=> intervalType = CapuaException

\* C4 witness: the classifier was called on an interval whose name is in none
\* of the three lists
C4_Witness ==
    /\ lastCall = "getIntervalType"
    /\ ~arg.isNone /\ arg.hasDiatonic
    /\ arg.name \notin (PerfectCons \cup ImperfCons \cup Others)
    /\ intervalType = CapuaException

(***************************************************************************)
(* Two voices                                                              *)
(***************************************************************************)
\* the upper voices: the voice of testColorCapuaFicta, the same with an editor's
\* ficta, with a written flat, with a rest, and a voice a ninth above the lower
UpperVoices ==
    {<<Note("D", 4, None), Note("E", 4, None), Note("F", 4, None), Note("G", 4, None)>>,
     <<Note("D", 4, None), Note("E", 4, None), WithFicta(Note("F", 4, None), "sharp"),
       Note("G", 4, None)>>,
     <<Note("F", 4, None), Note("E", 4, "flat"), Note("F", 4, None), Note("G", 4, None)>>,
     <<Note("G", 4, None), Note("F", 4, None), Note("G", 4, None), Rest>>,
     <<Note("E", 5, None), Note("C", 5, None), Note("D", 5, None)>>}

\* the lower voices: the voice of testColorCapuaFicta, one with a rest and a
\* shorter one
LowerVoices ==
    {<<Note("C", 4, None), Note("C", 4, None), Note("B", 3, None), Note("C", 4, None)>>,
     <<Note("G", 3, None), Rest, Note("B", 3, "flat"), Note("C", 4, None)>>,
     <<Note("C", 4, None), Note("B", 3, None), Note("C", 4, None)>>}

InitTwo == \E s1 \in UpperVoices, s2 \in LowerVoices : Start(s1, s2)

CallEvaluateWithoutFicta ==
    /\ nCalls < MaxEvalCalls
    /\ \E out \in {evaluateWithoutFicta(stream1, stream2)} :
         Evaluated("evaluateWithoutFicta", out)

CallEvaluateCapuaTwoStreams ==
    /\ nCalls < MaxEvalCalls
    /\ \E out \in {evaluateCapuaTwoStreams(stream1, stream2)} :
         Evaluated("evaluateCapuaTwoStreams", out)

CallEvaluateCapuaOnesrcStream ==
    /\ nCalls < MaxEvalCalls
    /\ \E out \in {evaluateCapuaOnesrcStream(stream1, stream2)} :
         Evaluated("evaluateCapuaOnesrcStream", out)

CallEvaluateEditorsFicta ==
    /\ nCalls < MaxEvalCalls
    /\ \E out \in {evaluateEditorsFicta(stream1, stream2)} :
         Evaluated("evaluateEditorsFicta", out)

CallColorCapuaFicta ==
    /\ nCalls < MaxEvalCalls
    /\ \E oneOrBoth \in {"one", "both", "neither"} :
         \E out \in {colorCapuaFicta(stream1, stream2, oneOrBoth)} :
            Evaluated("colorCapuaFicta:" \o oneOrBoth, out)

\* compareOnesrcStream(srcStream1, srcStream2) with the default fictaType
CallCompareOnesrcStream ==
    /\ nCalls < MaxEvalCalls
    /\ \E out \in {compareOnesrcStream(stream1, stream2, "editor")} :
         Evaluated("compareOnesrcStream", out)

NextTwo ==
    \/ CallCompareOnesrcStream
    \/ CallEvaluateWithoutFicta
    \/ CallEvaluateCapuaTwoStreams
    \/ CallEvaluateCapuaOnesrcStream
    \/ CallEvaluateEditorsFicta
    \/ CallColorCapuaFicta

SpecTwo == InitTwo /\ [][NextTwo]_vars

\* the streams of testColorCapuaFicta
TestStream1 ==
    <<Note("D", 4, None), Note("E", 4, None), Note("F", 4, None), Note("G", 4, None)>>
TestStream2 ==
    <<Note("C", 4, None), Note("C", 4, None), Note("B", 3, None), Note("C", 4, None)>>

\* the steps and octaves of a stream, which no call changes
Pitches(s) == [i \in 1..Len(s) |-> <<s[i].step, s[i].octave>>]

IsTest == orig1 = TestStream1 /\ Pitches(stream2) = Pitches(TestStream2)

\* C2: for the voice D4, E4, F4, G4 over C4, C4, B3, C4, evaluateWithoutFicta
\* leaves d5 as the harmonic interval of the third note, and after
\* evaluateCapuaTwoStreams and colorCapuaFicta(stream1, stream2, 'both') the
\* harmonic interval of the third note is P5.
C2_TestColorCapuaFicta ==
    IsTest =>
        /\ calls = <<"evaluateWithoutFicta">>
              => stream1[3].harmonicInterval.name = "d5"
                 /\ getIntervalType(stream1[3].harmonicInterval) = "dissonance"
        /\ calls = <<"evaluateWithoutFicta", "evaluateCapuaTwoStreams", "colorCapuaFicta:both">>
              => stream1[3].harmonicInterval.name = "P5"
                 /\ getIntervalType(stream1[3].harmonicInterval) = "perfect cons"

\* C2 witness: the three calls of the test were made on its two streams
C2_Witness ==
    /\ IsTest
    /\ calls = <<"evaluateWithoutFicta", "evaluateCapuaTwoStreams", "colorCapuaFicta:both">>
    /\ raised = None
    /\ stream1[3].harmonicInterval.name = "P5"

\* C14: after any number of runs of applyCapuaToStream, with evaluation passes
\* in between, the editorial-ficta record pmfcFicta of a note still is the
\* ficta the edition gave that note: never a value the rules proposed, never
\* reset to null.
C14_PmfcFictaKept ==
    \A j \in NotePositions(stream1) :
        stream1[j].pmfcFicta # Absent => stream1[j].pmfcFicta = orig1[j].ficta

\* the note at j of s has no partner in cmpStream: a rest or nothing sounds with it
NoPartner(s, cmpStream, j) == j > Len(cmpStream) \/ cmpStream[j].isRest

\* the harmony keys compareOnesrcStream writes
Harmonies(n) ==
    <<n.noFictaHarmony, n.editorFictaHarmony, n.capua1FictaHarmony, n.capua2FictaHarmony>>

\* the notes of s whose harmonic interval falls in one of the three classes
Classified(s) ==
    {j \in NotePositions(s) : getIntervalType(s[j].harmonicInterval) \in Classes}

rulesOfApply(thisStream) ==
    Bind(capuaRuleOne(thisStream), LAMBDA r1 :
    Bind(capuaRuleTwo(r1.ssn), LAMBDA r2 :
    Bind(capuaRuleThree(r2.ssn), LAMBDA r3 :
    Bind(capuaRuleFourB(r3.ssn), LAMBDA r4 :
         Done(r4.ssn, <<>>,
              <<r1.numChanged, r2.numChanged, r3.numChanged, r4.numChanged>>)))))

\* the body of the loop of ruleFrequency for one part: the five rule functions
\* on the same stream, with the numbers added to num1 .. num4b
rulesOfRuleFrequency(thisStream) ==
    Bind(capuaRuleOne(thisStream), LAMBDA r1 :
    Bind(capuaRuleTwo(r1.ssn), LAMBDA r2 :
    Bind(capuaRuleThree(r2.ssn), LAMBDA r3 :
    Bind(capuaRuleFourA(r3.ssn), LAMBDA r4a :
    Bind(capuaRuleFourB(r4a.ssn), LAMBDA r4b :
         Done(r4b.ssn, <<>>,
              <<r1.numChanged, r2.numChanged, r3.numChanged, r4a.numChanged,
                r4b.numChanged>>))))))

CallRulesOfApply ==
    /\ nCalls < 1
    /\ \E out \in {rulesOfApply(stream1)} : Evaluated("rulesOfApply", out)

CallRulesOfRuleFrequency ==
    /\ nCalls < 1
    /\ \E out \in {rulesOfRuleFrequency(stream1)} : Evaluated("rulesOfRuleFrequency", out)

\* the notes of a part without rests, as ruleFrequency reads it
OrderElements ==
    {Note("D", 4, None), Note("E", 4, "flat"), Note("F", 4, None), Note("G", 4, None),
     Note("A", 4, None), Note("B", 4, "flat"), Note("C", 5, None)}

\* fresh sequences: no note carries an annotation
OrderStreams == UNION {[1..l -> OrderElements] : l \in 1..MaxOrderLen}

InitOrder == \E s \in OrderStreams : Start(s, <<>>)

NextOrder ==
    \/ CallRulesOfApply
    \/ CallRulesOfRuleFrequency
    \/ nCalls < 1 /\ CallApplyCapuaToStream

SpecOrder == InitOrder /\ [][NextOrder]_vars

\* C12: running capuaRuleOne, capuaRuleTwo, capuaRuleThree and capuaRuleFourB in
\* that order on one sequence, as applyCapuaToStream and ruleFrequency do, gives
\* for every rule the number of matches that the rule gives alone on a fresh
\* copy of the sequence.
C12_OrderIndependent ==
    /\ lastCall = "rulesOfApply" =>
          count = <<capuaRuleOne(orig1).numChanged, capuaRuleTwo(orig1).numChanged,
                    capuaRuleThree(orig1).numChanged, capuaRuleFourB(orig1).numChanged>>
    /\ lastCall = "rulesOfRuleFrequency" =>
          /\ count[1] = capuaRuleOne(orig1).numChanged
          /\ count[2] = capuaRuleTwo(orig1).numChanged
          /\ count[3] = capuaRuleThree(orig1).numChanged
          /\ count[5] = capuaRuleFourB(orig1).numChanged

\* C12 witness: the rules ran in order on a sequence in which rule one or rule
\* two took the flat off its pivot and a later rule matched as well
C12_Witness ==
    /\ lastCall = "rulesOfApply"
    /\ \E j \in 1..Len(orig1) :
         /\ orig1[j].accidental = "flat" /\ stream1[j].accidental = None
         /\ stream1[j].capuaRuleNumber \in {RULE_ONE, RULE_TWO}
    /\ count[3] + count[4] > 0

(***************************************************************************)
(* The comparison with the editors on one stream                           *)
(***************************************************************************)
CallCompareSrcStreamCapuaToEditor ==
    /\ nCalls < MaxCalls
    /\ \E d \in {compareSrcStreamCapuaToEditor(stream1)} :
         Evaluated("compareSrcStreamCapuaToEditor", Done(stream1, stream2, StatsTuple(d)))

\* rests, plain notes and a note with a ficta of the editors
CompareElements ==
    {Rest, Note("D", 4, None), Note("E", 4, None), Note("F", 4, None),
     WithFicta(Note("F", 4, None), "sharp"), Note("G", 4, None)}

CompareStreams == UNION {[1..l -> CompareElements] : l \in 1..(MaxLen + 1)}

InitCompare == \E s \in CompareStreams : Start(s, <<>>)

NextCompare ==
    \/ CallApplyCapuaToStream
    \/ CallRuleOne
    \/ CallRuleTwo
    \/ CallCompareSrcStreamCapuaToEditor

SpecCompare == InitCompare /\ [][NextCompare]_vars

\* a ficta slot is set: it holds an accidental
IsSet(v) == v \notin {Absent, None}

\* the number of notes of s of which P holds
NotesWith(s, P(_)) == Cardinality({j \in NotePositions(s) : P(s[j])})

\* C15: a rest counts nothing; a note counts 1 in totalNotes and, with 'set'
\* meaning that the slot holds an accidental, in pmfcAlt, capuaAlt and
\* pmfcAndCapua iff both the editorial and the rule ficta are set, in pmfcAlt
\* and pmfcNotCapua iff only the editorial ficta is set, in capuaAlt and
\* capuaNotPmfc iff only the rule ficta is set; so after applyCapuaToStream a
\* note the editors did not alter is not counted in pmfcAlt.
C15_PerNoteComparison ==
    lastCall = "compareSrcStreamCapuaToEditor" =>
        count = <<NotesWith(stream1, LAMBDA n : TRUE),
                  NotesWith(stream1, LAMBDA n : IsSet(n.pmfcFicta)),
                  NotesWith(stream1, LAMBDA n : IsSet(n.capuaFicta)),
                  NotesWith(stream1, LAMBDA n : IsSet(n.pmfcFicta) /\ ~IsSet(n.capuaFicta)),
                  NotesWith(stream1, LAMBDA n : IsSet(n.capuaFicta) /\ ~IsSet(n.pmfcFicta)),
                  NotesWith(stream1, LAMBDA n : IsSet(n.pmfcFicta) /\ IsSet(n.capuaFicta))>>

(***************************************************************************)
(* The runs over the corpus, a step for each piece fetched and each        *)
(* snippet worked on                                                       *)
(***************************************************************************)
Part(id, notes) == [id |-> id, notes |-> notes]

Snippet(classes, parts) == [isNone |-> FALSE, classes |-> classes, parts |-> parts]

\* a snippet that is None
NoSnippet == [isNone |-> TRUE, classes |-> {}, parts |-> <<>>]

\* pieceObj with its incipit, its cadenceA and its snippets
Piece(incipit, cadenceA, snippets) ==
    [incipit |-> incipit, cadenceA |-> cadenceA, snippets |-> snippets]

\* findCorrections were the correction type not looked at before the loop
findCorrectionsStartUnchecked(correctionType, startPiece, endPiece) ==
    [NoRun EXCEPT !.name = "findCorrections", !.correctionType = correctionType,
                  !.startPiece = startPiece, !.endPiece = endPiece, !.j = startPiece,
                  !.pc = "loop"]

\* findCorrections up to the loop over the pieces
findCorrectionsStart(correctionType, startPiece, endPiece) ==
    [NoRun EXCEPT !.name = "findCorrections", !.correctionType = correctionType,
                  !.startPiece = startPiece, !.endPiece = endPiece, !.j = startPiece,
                  !.pc = IF correctionType \in {"Maj3", "min6"} THEN "loop" ELSE "raised"]

StartFindCorrections ==
    /\ run.pc = "idle"
    /\ \E correctionType \in CorrectionTypes,
          startPiece \in 1..(Len(corpus) + 1), endPiece \in 1..(Len(corpus) + 1) :
          /\ startPiece <= endPiece
          /\ run' = findCorrectionsStart(correctionType, startPiece, endPiece)
          /\ raised' = IF run'.pc = "raised" THEN CapuaException ELSE None
    /\ totalDict' = ZeroTotals
    /\ lastCall' = "findCorrections"
    /\ UNCHANGED <<stream1, stream2, orig1, pre1, pre2, nCalls, calls, ret, count, arg,
                   intervalType, corpus, checkDict>>

StartImprovedHarmony ==
    /\ run.pc = "idle"
    /\ \E startPiece \in 1..(Len(corpus) + 1), endPiece \in 1..(Len(corpus) + 1) :
          /\ startPiece <= endPiece
          /\ run' = [NoRun EXCEPT !.name = "improvedHarmony", !.startPiece = startPiece,
                                  !.endPiece = endPiece, !.j = startPiece, !.pc = "loop"]
    /\ checkDict' = ZeroCheck
    /\ lastCall' = "improvedHarmony"
    /\ UNCHANGED <<stream1, stream2, orig1, pre1, pre2, nCalls, calls, ret, count, raised,
                   arg, intervalType, corpus, totalDict>>

\* testCompare1 goes over a fixed range of pieces: here over all of them
StartTestCompare1 ==
    /\ run.pc = "idle"
    /\ run' = [NoRun EXCEPT !.name = "testCompare1", !.startPiece = 1,
                            !.endPiece = Len(corpus) + 1, !.j = 1, !.pc = "loop"]
    /\ totalDict' = ZeroTotals
    /\ lastCall' = "testCompare1"
    /\ UNCHANGED <<stream1, stream2, orig1, pre1, pre2, nCalls, calls, ret, count, raised,
                   arg, intervalType, corpus, checkDict>>

\* pieceObj = ballataObj.makeWork(j) in findCorrections and improvedHarmony,
\* and the test of its incipit
FetchPiece ==
    /\ run.pc = "loop"
    /\ run.name \in {"findCorrections", "improvedHarmony"}
    /\ run.j < run.endPiece
    /\ LET pieceObj == corpus[run.j]
       IN  run' = IF pieceObj.incipit = None \/ pieceObj.snippets = <<>>
                  THEN [run EXCEPT !.fetched = @ + 1, !.j = @ + 1]
                  ELSE [run EXCEPT !.fetched = @ + 1, !.pc = "snippets", !.k = 1]
    /\ UNCHANGED <<stream1, stream2, orig1, pre1, pre2, lastCall, nCalls, calls, ret,
                   count, raised, arg, intervalType, corpus, totalDict, checkDict>>

\* the run after the snippet k of the piece j
NextSnippet(r) ==
    IF r.k < Len(corpus[r.j].snippets) THEN [r EXCEPT !.k = @ + 1]
    ELSE [r EXCEPT !.j = @ + 1, !.k = 0, !.pc = "loop"]

\* one pass of the loop of findCorrections over the snippets of the piece
FindCorrectionsSnippet ==
    /\ run.pc = "snippets"
    /\ run.name = "findCorrections"
    /\ LET thisSnippet == corpus[run.j].snippets[run.k]
       IN  /\ \E total \in {findCorrectionsSnippet(thisSnippet, run.correctionType,
                                                   totalDict)} :
                 totalDict' = total
           /\ run' = NextSnippet(IF SkippedSnippet(thisSnippet) THEN run
                                 ELSE [run EXCEPT !.found = Append(@, <<run.j, run.k>>)])
    /\ UNCHANGED <<stream1, stream2, orig1, pre1, pre2, lastCall, nCalls, calls, ret,
                   count, raised, arg, intervalType, corpus, checkDict>>

\* one pass of the loop of improvedHarmony over the snippets of the piece
ImprovedHarmonySnippet ==
    /\ run.pc = "snippets"
    /\ run.name = "improvedHarmony"
    /\ \E check \in {improvedHarmonySnippet(corpus[run.j].snippets[run.k], checkDict)} :
          checkDict' = check
    /\ run' = NextSnippet(run)
    /\ UNCHANGED <<stream1, stream2, orig1, pre1, pre2, lastCall, nCalls, calls, ret,
                   count, raised, arg, intervalType, corpus, totalDict>>

\* one pass of the loop of testCompare1 over the pieces: the rules on the first
\* part of cadenceA, then its comparison with the editors added to the totals
TestCompare1Piece ==
    /\ run.pc = "loop"
    /\ run.name = "testCompare1"
    /\ run.j < run.endPiece
    /\ run' = [run EXCEPT !.fetched = @ + 1, !.j = @ + 1]
    /\ LET pieceObj == corpus[run.j]
           cadenceA == pieceObj.cadenceA
       IN  IF pieceObj.incipit = None \/ cadenceA.isNone \/ Len(cadenceA.parts) < 2
           THEN UNCHANGED <<stream1, stream2, pre1, pre2, lastCall, nCalls, calls, count,
                            totalDict>>
           ELSE \E srcStream1 \in {applyCapuaToStream(cadenceA.parts[1].notes)} :
                \E thisDict \in {compareSrcStreamCapuaToEditor(srcStream1)} :
                    /\ Call("compareSrcStreamCapuaToEditor", srcStream1, <<>>)
                    /\ calls' = calls \o <<"applyCapuaToStream",
                                           "compareSrcStreamCapuaToEditor">>
                    /\ count' = StatsTuple(thisDict)
                    /\ totalDict' = AddStats(totalDict, thisDict)
    /\ UNCHANGED <<orig1, ret, raised, arg, intervalType, corpus, checkDict>>

\* return totalDict, foundPieceOpus; return checkDict
ReturnFromRun ==
    /\ run.pc = "loop"
    /\ run.name \in {"findCorrections", "improvedHarmony"}
    /\ run.j >= run.endPiece
    /\ run' = [run EXCEPT !.pc = "done"]
    /\ UNCHANGED <<stream1, stream2, orig1, pre1, pre2, lastCall, nCalls, calls, ret,
                   count, raised, arg, intervalType, corpus, totalDict, checkDict>>

\* the two assertEqual at the end of testCompare1
ReturnFromTest ==
    /\ run.pc = "loop"
    /\ run.name = "testCompare1"
    /\ run.j >= run.endPiece
    /\ run' = [run EXCEPT !.pc = IF totalDict.capuaAlt = 18 /\ totalDict.totalNotes = 200
                                 THEN "done" ELSE "failed"]
    /\ UNCHANGED <<stream1, stream2, orig1, pre1, pre2, lastCall, nCalls, calls, ret,
                   count, raised, arg, intervalType, corpus, totalDict, checkDict>>

(***************************************************************************)
(* The corpus of the model: a few pieces, each of one of these kinds       *)
(***************************************************************************)
\* two voices: the F of the upper one is a minor third before a unison and
\* rule two sharpens it; the editors sharpened the E
ThirdSnippet ==
    Snippet({"FrontPaddedSnippet"},
            <<Part("C", <<Note("D", 4, None), WithFicta(Note("E", 4, None), "sharp"),
                          Note("F", 4, None), Note("G", 4, None)>>),
              Part("T", <<Note("G", 3, None), Note("C", 4, None),
                          Note("D", 4, None), Note("G", 4, None)>>)>>)

\* three voices: after a diminished fifth and a rest, a major sixth that has
\* a minor sixth between it and the octave
SixthSnippet ==
    Snippet({"FrontPaddedSnippet"},
            <<Part("C", <<Note("F", 5, None), Rest, Note("E", 5, None), Note("F", 5, None),
                          Note("G", 5, None)>>),
              Part("Ct", <<Note("C", 5, None)>>),
              Part("T", <<Note("B", 4, None), Rest, Note("G", 4, None), Note("A", 4, None),
                          Note("G", 4, None)>>)>>)

\* two voices: rule two sharpens the F of a diminished fifth
FifthSnippet ==
    Snippet({"FrontPaddedSnippet"},
            <<Part("C", <<Note("D", 4, None), Note("E", 4, None),
                          Note("F", 4, None), Note("G", 4, None)>>),
              Part("T", <<Note("G", 3, None), Note("A", 3, None),
                          Note("B", 3, None), Note("C", 4, None)>>)>>)

\* the incipit of a piece, among its snippets
IncipitSnippet ==
    Snippet({"Incipit"},
            <<Part("C", <<Note("E", 5, None), Note("F", 5, None)>>),
              Part("T", <<Note("G", 4, None), Note("F", 4, None)>>)>>)

\* a snippet of one voice
OneVoiceSnippet ==
    Snippet({"FrontPaddedSnippet"},
            <<Part("C", <<Note("D", 4, None), Note("E", 4, None),
                          Note("F", 4, None), Note("G", 4, None)>>)>>)

PieceKinds ==
    {Piece("incipit", ThirdSnippet, <<IncipitSnippet, ThirdSnippet, NoSnippet>>),
     Piece("incipit", SixthSnippet, <<IncipitSnippet, SixthSnippet, OneVoiceSnippet>>),
     Piece("incipit", NoSnippet, <<OneVoiceSnippet, ThirdSnippet, FifthSnippet>>),
     Piece(None, NoSnippet, <<ThirdSnippet>>)}

InitCorpus ==
    /\ corpus \in [1..MaxPieces -> PieceKinds]
    /\ run = NoRun
    /\ totalDict = ZeroTotals
    /\ checkDict = ZeroCheck
    /\ stream1 = <<>>
    /\ stream2 = <<>>
    /\ orig1 = <<>>
    /\ pre1 = <<>>
    /\ pre2 = <<>>
    /\ lastCall = None
    /\ nCalls = 0
    /\ calls = <<>>
    /\ ret = 0
    /\ count = <<>>
    /\ raised = None
    /\ arg = NoInterval
    /\ intervalType = None

NextCorpus ==
    \/ StartFindCorrections
    \/ StartImprovedHarmony
    \/ StartTestCompare1
    \/ FetchPiece
    \/ FindCorrectionsSnippet
    \/ ImprovedHarmonySnippet
    \/ TestCompare1Piece
    \/ ReturnFromRun
    \/ ReturnFromTest

SpecCorpus == InitCorpus /\ [][NextCorpus]_vars

(***************************************************************************)
(* Properties of the runs over the corpus                                  *)
(***************************************************************************)
\* C18: findCorrections called with a correction type other than 'Maj3' and
\* 'min6' raises CapuaException before it fetches a piece and before it changes
\* a tally or puts a snippet into the opus it returns.
C18_InvalidTypeRaises ==
    (run.name = "findCorrections" /\ run.correctionType \notin {"Maj3", "min6"}) =>
        /\ run.pc = "raised"
        /\ raised = CapuaException
        /\ run.fetched = 0
        /\ run.found = <<>>
        /\ totalDict = ZeroTotals

\* the call with the unknown type is made on pieces that the types known have
\* something to count in
C18_Witness ==
    /\ run.pc = "raised"
    /\ run.correctionType = "Maj6"
    /\ run.startPiece < run.endPiece
    /\ findCorrections(corpus, "Maj3", run.startPiece, run.endPiece).potentialChange > 0

\* the step goes on to the next snippet of the piece, or to the next piece after
\* its last snippet
GoesOn ==
    \/ run'.pc = "snippets" /\ run'.j = run.j /\ run'.k = run.k + 1
    \/ /\ run.k = Len(corpus[run.j].snippets)
       /\ run'.pc = "loop"
       /\ run'.j = run.j + 1

\* C17: in findCorrections and in improvedHarmony a piece whose incipit is None
\* and a snippet of fewer than two parts are passed over: nothing is raised, no
\* tally changes, and the run goes on with the next piece or snippet.
C17_DefensiveSkipping ==
    [][/\ (/\ run.pc = "loop"
           /\ run.name \in {"findCorrections", "improvedHarmony"}
           /\ run.j < run.endPiece
           /\ corpus[run.j].incipit = None)
          => /\ totalDict' = totalDict
             /\ checkDict' = checkDict
             /\ raised' = None
             /\ run'.found = run.found
             /\ run'.pc = "loop"
             /\ run'.j = run.j + 1
       /\ (/\ run.pc = "snippets"
           /\ ~corpus[run.j].snippets[run.k].isNone
           /\ Len(corpus[run.j].snippets[run.k].parts) < 2)
          => /\ totalDict' = totalDict
             /\ checkDict' = checkDict
             /\ raised' = None
             /\ run'.found = run.found
             /\ GoesOn]_vars

\* a run of findCorrections that passed over a piece without incipit and then
\* over a snippet of one voice, and counted notes of other snippets
C17_Witness ==
    /\ run.pc = "done"
    /\ run.name = "findCorrections"
    /\ totalDict.potentialChange > 0
    /\ \E j1, j2 \in run.startPiece..(run.endPiece - 1) :
          /\ j1 < j2
          /\ corpus[j1].incipit = None
          /\ corpus[j2].incipit # None
          /\ \E k \in 1..Len(corpus[j2].snippets) :
                /\ ~corpus[j2].snippets[k].isNone
                /\ Len(corpus[j2].snippets[k].parts) < 2

\* the sum of two tallies, category by category
PlusTotals(x, y) == [thisKey \in DOMAIN ZeroTotals |-> x[thisKey] + y[thisKey]]

\* the sum over the elements of s of what compareNoteCapuaToEditor returns
SumOverNotes(s) ==
    [thisKey \in DOMAIN ZeroStats |->
        Cardinality({i \in 1..Len(s) : compareNoteCapuaToEditor(s[i])[thisKey] = 1})]

\* C16: the tally findCorrections returns for the pieces [a,c) is, in each of
\* its seven categories, the sum of the tallies for [a,b) and [b,c), for
\* every b from a to c; what compareSrcStreamCapuaToEditor returns for a stream
\* is the sum of compareNoteCapuaToEditor over its elements; and no category
\* gets smaller in a step of a run.
C16_TallyAdditivity ==
    /\ []((run.name = "findCorrections" /\ run.pc = "done") =>
            \A b \in run.startPiece..run.endPiece :
                Bind(findCorrections(corpus, run.correctionType, run.startPiece, b),
                     LAMBDA first :
                Bind(findCorrections(corpus, run.correctionType, b, run.endPiece),
                     LAMBDA second : totalDict = PlusTotals(first, second))))
    /\ [](lastCall = "compareSrcStreamCapuaToEditor" =>
            count = StatsTuple(SumOverNotes(stream1)))
    /\ [][\A thisKey \in DOMAIN ZeroTotals : totalDict'[thisKey] >= totalDict[thisKey]]_vars

\* a finished run over pieces that can be split in two so that both halves
\* count notes
C16_Witness ==
    /\ run.name = "findCorrections"
    /\ run.pc = "done"
    /\ \E b \in (run.startPiece + 1)..(run.endPiece - 1) :
          /\ findCorrections(corpus, run.correctionType, run.startPiece, b).capuaAlt > 0
          /\ findCorrections(corpus, run.correctionType, b, run.endPiece).potentialChange > 0

(***************************************************************************)
(* Promotion and restoration in the evaluation passes and in the store     *)
(***************************************************************************)
\* the written accidentals of the elements of a stream
Accidental(s) == [i \in 1..Len(s) |-> s[i].accidental]

\* C21: when evaluateEditorsFicta, evaluateCapuaOnesrcStream or
\* evaluateCapuaTwoStreams returns, every note of both streams has the
\* accidental it had before the call: no promoted ficta stays on a pitch.
C21_EvaluationRestores ==
    [][(/\ lastCall' \in {"evaluateEditorsFicta", "evaluateCapuaOnesrcStream",
                          "evaluateCapuaTwoStreams"}
        /\ raised' = None)
       => /\ Accidental(stream1') = Accidental(stream1)
          /\ Accidental(stream2') = Accidental(stream2)]_vars

\* C22: restoreAccidental on a note that has no saved accidental pending
\* (nothing was saved, or what was saved has been restored) leaves the
\* accidental of the note as it is; so a second restoreAccidental changes
\* nothing.
C22_RestoreNoOp ==
    [][lastCall' = "restoreAccidental"
       => \A j \in NotePositions(stream1) :
            stream1[j].savedAccidental \in {Absent, None}
                => stream1'[j].accidental = stream1[j].accidental]_vars

\* the promotion that reads the slot of the call
Promote(call, n) ==
    IF call = "capuaFictaToAccidental" THEN capuaFictaToAccidental(n)
    ELSE pmfcFictaToAccidental(n)

\* the notes of s that hold a ficta in the slot the call reads
Promotable(call, s) ==
    {j \in NotePositions(s) : PromotedSlot(call, s[j]) \notin {Absent, None}}

\* C23: when capuaFictaToAccidental or pmfcFictaToAccidental is called twice
\* with no restoreAccidental in between on a note whose slot holds a ficta,
\* the second call raises nothing and leaves the promoted accidental in
\* savedAccidental, and a restoreAccidental that follows gives the note the
\* promoted accidental, not the one it had at first.
C23_DoublePromotion ==
    [][\A call \in {"capuaFictaToAccidental", "pmfcFictaToAccidental"} :
          /\ (lastCall = call /\ lastCall' = call)
                => /\ raised' = None
                   /\ \A j \in Promotable(call, stream1) :
                         /\ stream1[j].accidental = PromotedSlot(call, stream1[j])
                         /\ stream1'[j].savedAccidental = stream1[j].accidental
          /\ (/\ nCalls = 2
              /\ lastCall = call
              /\ pre1 = ForEachNote(LAMBDA n : Promote(call, n), orig1)
              /\ lastCall' = "restoreAccidental")
                => \A j \in Promotable(call, orig1) :
                      stream1'[j].accidental = PromotedSlot(call, orig1[j])]_vars

\* two promotions and a restoration on a note that had no accidental at first
\* and has the promoted one now
C23_Witness ==
    /\ nCalls = 3
    /\ lastCall = "restoreAccidental"
    /\ \E call \in {"capuaFictaToAccidental", "pmfcFictaToAccidental"} :
          /\ pre1 = ForEachNote(LAMBDA n : Promote(call, Promote(call, n)), orig1)
          /\ \E j \in Promotable(call, orig1) :
                /\ orig1[j].accidental # PromotedSlot(call, orig1[j])
                /\ stream1[j].accidental = PromotedSlot(call, orig1[j])

\* the ficta slots of the elements of a stream
Ficta(s) == [i \in 1..Len(s) |-> s[i].ficta]

\* C24: clearFicta followed by restoreFicta gives every note the ficta it had
\* before clearFicta, so evaluateWithoutFicta, which calls the two around its
\* comparison, leaves the ficta slot of every note of both streams as it was.
C24_FictaRoundTrip ==
    [][lastCall' = "evaluateWithoutFicta"
       => Ficta(stream1') = Ficta(stream1) /\ Ficta(stream2') = Ficta(stream2)]_vars

(***************************************************************************)
(* What findCorrections counts and what it returns                         *)
(***************************************************************************)
\* the two voices of a snippet as findCorrections scans them: the intervals
\* attached, the rules applied, the rests dropped
ScannedVoices(thisSnippet) ==
    Bind(attachIntervalsBetweenStreams(PartNotes(thisSnippet.parts, "C"),
                                       PartNotes(thisSnippet.parts, "T")), LAMBDA a1 :
    Bind(attachIntervalsBetweenStreams(PartNotes(thisSnippet.parts, "T"), a1), LAMBDA a2 :
         <<NotesOnly(applyCapuaToStream(a1)), NotesOnly(applyCapuaToStream(a2))>>))

\* the positions of the notes of a scanned voice that the claim lets contribute
Qualifying(voice, correctionType) ==
    {i \in 1..(Len(voice) - 1) :
        /\ voice[i].harmonicInterval.simpleName =
               (IF correctionType = "Maj3" THEN "m3" ELSE "M6")
        /\ \E m \in (i + 1)..(i + (IF correctionType = "Maj3" THEN 1 ELSE 2)) :
              /\ m <= Len(voice)
              /\ IF correctionType = "Maj3"
                 THEN voice[m].harmonicInterval.simpleName = "P1"
                 ELSE voice[m].harmonicInterval.semiSimpleName = "P8"}

\* the snippet has a qualifying note that the rules altered and the editors did not
Interesting(thisSnippet, correctionType) ==
    \E v \in 1..2 :
        LET voice == ScannedVoices(thisSnippet)[v]
        IN  \E i \in Qualifying(voice, correctionType) :
                compareNoteCapuaToEditor(voice[i]).capuaNotPmfc = 1

\* C25: the opus findCorrections returns holds a snippet only if the snippet
\* has a qualifying note that the rules of Capua altered and the editors did
\* not (capuaNotPmfc = 1).
C25_FilteredOpus ==
    \A f \in 1..Len(run.found) :
        Interesting(corpus[run.found[f][1]].snippets[run.found[f][2]], run.correctionType)

\* what the qualifying notes of a scanned voice add to the category thisKey
Contribution(voice, correctionType, thisKey) ==
    Cardinality({i \in Qualifying(voice, correctionType) :
                    thisKey = "potentialChange"
                    \/ compareNoteCapuaToEditor(voice[i])[thisKey] = 1})

C27_OneStreamColouring ==
    /\ lastCall = "colorCapuaFicta:one"
          => /\ raised # AttributeError
             /\ \A j \in NotePositions(stream1) :
                   stream1[j].capua2FictaHarmony # Absent
                       => stream1[j].capua1FictaHarmony # Absent
    /\ lastCall = "colorCapuaFicta:neither" => raised \in {CapuaException, None}

(***************************************************************************)
(* One pass of the rules over fresh notes                                  *)
(***************************************************************************)
\* the last call was one pass of the rules over notes without provenance: one
\* call of applyCapuaToStream, or one round of the rule functions
FreshPass ==
    \/ lastCall \in {"rulesOfApply", "rulesOfRuleFrequency"}
    \/ lastCall = "applyCapuaToStream" /\ nCalls = 1

\* C28: in one pass over notes that start without provenance no note is the
\* pivot of more than one rule: every capuaRuleNumber the pass leaves is 0 or
\* exactly one of the rule constants 1, 2, 4, 8, 16.
C28_OneRulePerPivot ==
    FreshPass =>
        \A j \in NotePositions(stream1) :
            stream1[j].capuaRuleNumber
                \in {0, RULE_ONE, RULE_TWO, RULE_THREE, RULE_FOUR_A, RULE_FOUR_B}

\* C28 witness: one round of the rule functions over fresh notes in which rule
\* one or rule two took the flat off its pivot and another rule matched
\* another note
C28_Witness ==
    /\ lastCall = "rulesOfRuleFrequency"
    /\ \E j, k \in NotePositions(stream1) :
         /\ orig1[j].accidental = "flat" /\ stream1[j].accidental = None
         /\ stream1[j].capuaRuleNumber \in {RULE_ONE, RULE_TWO}
         /\ stream1[k].capuaRuleNumber
                \in {RULE_ONE, RULE_TWO, RULE_THREE, RULE_FOUR_A, RULE_FOUR_B}
                    \ {stream1[j].capuaRuleNumber}

(***************************************************************************)
(* The windows of one call of a rule function                              *)
(***************************************************************************)
\* the windows that the rule function `name` matches when each window is
\* read from ssn as it is, with nothing written in between
MatchesOn(name, ssn) ==
    IF name = "capuaRuleTwo"
    THEN {i \in 1..(Len(ssn) - 3) : capuaRuleTwoWindow(ssn, i).hit}
    ELSE {i \in 1..(Len(ssn) - 2) :
            CASE name = "capuaRuleOne" -> capuaRuleOneWindow(ssn, i).hit
              [] name = "capuaRuleThree" -> capuaRuleThreeWindow(ssn, i).hit
              [] name = "capuaRuleFourA" -> capuaRuleFourAWindow(ssn, i).hit
              [] name = "capuaRuleFourB" -> capuaRuleFourBWindow(ssn, i).hit}

\* the place of the pivot in a window of the rule function `name`
PivotOffset(name) == IF name = "capuaRuleTwo" THEN 2 ELSE 1

\* C29: during one call of a rule function a window matches iff it matches on
\* the pitches as they were when the call started: the call returns the number
\* of the windows that match on its input and adds its constant to the
\* provenance of their pivots and of no other note, whatever flats it removed
\* from pivots on its way.
C29_MatchesFromInput ==
    lastCall \in {"capuaRuleOne", "capuaRuleTwo", "capuaRuleThree", "capuaRuleFourA",
                  "capuaRuleFourB"}
        => /\ ret = Cardinality(MatchesOn(lastCall, pre1))
           /\ \A j \in 1..Len(pre1) :
                (~pre1[j].isRest
                    /\ stream1[j].capuaRuleNumber # pre1[j].capuaRuleNumber)
                    <=> (j - PivotOffset(lastCall)) \in MatchesOn(lastCall, pre1)

(***************************************************************************)
(* The proposals a call of applyCapuaToStream leaves                       *)
(***************************************************************************)
\* C30: after every call of applyCapuaToStream, a second or later one on the
\* same stream included, a note carries a proposal in capuaFicta iff a rule
\* matched it during this call, and iff its ficta is not null and equals its
\* capuaFicta: no proposal of an earlier run stays on a note that no rule
\* matches in this run.
C30_NoStaleProposal ==
    lastCall = "applyCapuaToStream" =>
        \A j \in NotePositions(stream1) :
            /\ stream1[j].capuaFicta # Absent
                  <=> stream1[j].capuaRuleNumber # pre1[j].capuaRuleNumber
            /\ stream1[j].capuaFicta # Absent
                  <=> (stream1[j].ficta # None /\ stream1[j].ficta = stream1[j].capuaFicta)

====
